---- MODULE Spec2Model ----
(***************************************************************************)
(* Model of the bounded fragment pipeline of lecture_cleanup_ai_pipeline:  *)
(* the line-preserving chunker of scripts/utils.py and the fragment loop   *)
(* (retry/backoff, tally, stitching order) of scripts/run_pipeline.py.     *)
(*                                                                         *)
(* A Python str is a sequence of one-character strings.  The alphabet has  *)
(* one letter, one whitespace character and one sentence-ending character, *)
(* which is what the regular expressions of utils.py tell apart.           *)
(***************************************************************************)
EXTENDS Integers, Sequences, FiniteSets, TLC

\* ------------------------------------------------------------------ bounds
MaxLines == 2
MaxTotalChars == 4
MaxChunkChars == 3
MaxOverlapChars == 2
MaxFragments == 3
MaxAttempts == 3
MaxTerms == 3

\* the terms of a glossary, numbered
Terms == 1..MaxTerms

Chars == {"a", " ", "."}
NL == "\n"

StringsUpTo(n) == UNION {[1..k -> Chars] : k \in 0..n}

\* the lists of exactly k lines that hold at most t characters in all
RECURSIVE ListsOf(_, _)
ListsOf(k, t) ==
    IF k = 0 THEN {<<>>}
    ELSE UNION {{<<s>> \o r : r \in ListsOf(k - 1, t - Len(s))} : s \in StringsUpTo(t)}

LineLists == UNION {ListsOf(k, MaxTotalChars) : k \in 0..MaxLines}

Min(a, b) == IF a <= b THEN a ELSE b
Max(a, b) == IF a >= b THEN a ELSE b

\* ------------------------------------------------- str and re primitives
\* \s of the re module, str.strip() and str.split() whitespace
IsSpace(c) == c \in {" ", NL}
\* the character class [\.!?...] of SENTENCE_SPLIT_RE
IsSentenceEnd(c) == c = "."
\* not ln.strip()
IsBlank(s) == \A k \in 1..Len(s) : IsSpace(s[k])

RECURSIVE Concat(_)
Concat(ss) == IF ss = <<>> THEN <<>> ELSE Head(ss) \o Concat(Tail(ss))

\* sep.join(ss)
RECURSIVE Join(_, _)
Join(ss, sep) ==
    IF ss = <<>> THEN <<>>
    ELSE IF Len(ss) = 1 THEN ss[1]
    ELSE ss[1] \o sep \o Join(Tail(ss), sep)

\* first index >= k that does not hold a whitespace character (Len(s)+1 if none)
RECURSIVE SkipSpaces(_, _)
SkipSpaces(s, k) ==
    IF k > Len(s) \/ ~IsSpace(s[k]) THEN k ELSE SkipSpaces(s, k + 1)

\* last index of the maximal run of one character class that starts at k
RECURSIVE RunEnd(_, _)
RunEnd(s, k) ==
    IF k < Len(s) /\ IsSpace(s[k + 1]) = IsSpace(s[k]) THEN RunEnd(s, k + 1) ELSE k

\* SENTENCE_SPLIT_RE.split(line): cut at every whitespace run that follows a
\* sentence-ending character; the run itself is dropped
RECURSIVE SentenceSplitFrom(_, _, _, _)
SentenceSplitFrom(s, k, cur, acc) ==
    IF k > Len(s) THEN Append(acc, cur)
    ELSE IF IsSpace(s[k]) /\ k > 1 /\ IsSentenceEnd(s[k - 1])
         THEN SentenceSplitFrom(s, SkipSpaces(s, k), <<>>, Append(acc, cur))
         ELSE SentenceSplitFrom(s, k + 1, Append(cur, s[k]), acc)

SENTENCE_SPLIT_RE_split(line) == SentenceSplitFrom(line, 1, <<>>, <<>>)

\* re.findall(r"\S+|\s+", text): the maximal runs, whitespace runs included
RECURSIVE TokensFrom(_, _)
TokensFrom(s, k) ==
    IF k > Len(s) THEN <<>>
    ELSE LET e == RunEnd(s, k) IN <<SubSeq(s, k, e)>> \o TokensFrom(s, e + 1)

\* re.findall(r"\S+", text): the words only
TokensWithoutSpaces(text) == SelectSeq(TokensFrom(text, 1), LAMBDA tok : ~IsSpace(tok[1]))

Tokens(text) == TokensFrom(text, 1)

\* ------------------------------------------------------ Long-line splitter
\* the long token taken whole
NoHardSplit(tok, start, limit) == <<tok>>

\* the inner while of _split_by_words_with_char_fallback: tok[start:end] for
\* start = 0, limit, 2*limit, ... (0-based start; needs limit >= 1 to end)
RECURSIVE HardSplit(_, _, _)
HardSplit(tok, start, limit) ==
    IF start >= Len(tok) THEN <<>>
    ELSE LET end == Min(Len(tok), start + limit)
         IN  <<SubSeq(tok, start + 1, end)>> \o HardSplit(tok, end, limit)

\* the for loop over tokens; st = [pieces, buf, notes]
RECURSIVE WordsLoop(_, _, _)
WordsLoop(tokens, limit, st) ==
    IF tokens = <<>> THEN st
    ELSE LET tok == Head(tokens)
             flushed == IF st.buf # <<>> THEN Append(st.pieces, st.buf) ELSE st.pieces
         IN  IF Len(st.buf) + Len(tok) <= limit
             THEN WordsLoop(Tail(tokens), limit, [st EXCEPT !.buf = st.buf \o tok])
             ELSE IF Len(tok) > limit
             THEN WordsLoop(Tail(tokens), limit,
                      [pieces |-> flushed \o HardSplit(tok, 0, limit),
                       buf |-> <<>>,
                       notes |-> Append(st.notes, "hard_split")])
             ELSE WordsLoop(Tail(tokens), limit,
                      [pieces |-> flushed, buf |-> tok, notes |-> st.notes])

\* the tokens as the pieces, whatever their length
SplitByWordsOnly(text, limit) == [pieces |-> Tokens(text), notes |-> <<>>]

_split_by_words_with_char_fallback(text, limit) ==
    LET st == WordsLoop(Tokens(text), limit,
                        [pieces |-> <<>>, buf |-> <<>>, notes |-> <<>>])
    IN  [pieces |-> IF st.buf # <<>> THEN Append(st.pieces, st.buf) ELSE st.pieces,
         notes |-> st.notes]

\* the for loop over sentences of split_line_for_limit; st = [pieces, buf, notes]
RECURSIVE SentencesLoop(_, _, _)
SentencesLoop(sentences, limit, st) ==
    IF sentences = <<>> THEN st
    ELSE LET s == Head(sentences)
             add_len == IF st.buf = <<>> THEN Len(s) ELSE 1 + Len(s)
             flushed == IF st.buf # <<>> THEN Append(st.pieces, st.buf) ELSE st.pieces
             ws == _split_by_words_with_char_fallback(s, limit)
         IN  IF s = <<>> THEN SentencesLoop(Tail(sentences), limit, st)
             ELSE IF Len(st.buf) + add_len <= limit
             THEN SentencesLoop(Tail(sentences), limit,
                      [st EXCEPT !.buf = IF st.buf = <<>> THEN s
                                         ELSE st.buf \o <<" ">> \o s])
             ELSE IF Len(s) > limit
             THEN SentencesLoop(Tail(sentences), limit,
                      [pieces |-> flushed \o ws.pieces,
                       buf |-> <<>>,
                       notes |-> st.notes \o ws.notes])
             ELSE SentencesLoop(Tail(sentences), limit,
                      [pieces |-> flushed, buf |-> s, notes |-> st.notes])

\* split_line_for_limit(line, limit) -> (pieces, notes)
split_line_for_limit(line, limit) ==
    IF Len(line) <= limit THEN [pieces |-> <<line>>, notes |-> <<>>]
    ELSE LET sentences == SENTENCE_SPLIT_RE_split(line)
             st == SentencesLoop(sentences, limit,
                       [pieces |-> <<>>, buf |-> <<>>, notes |-> <<"long_line">>])
             ws == _split_by_words_with_char_fallback(line, limit)
         IN  IF Len(sentences) > 1
             THEN [pieces |-> IF st.buf # <<>> THEN Append(st.pieces, st.buf)
                              ELSE st.pieces,
                   notes |-> st.notes]
             ELSE [pieces |-> ws.pieces, notes |-> <<"long_line">> \o ws.notes]

RECURSIVE SumLen(_)
SumLen(ss) == IF ss = <<>> THEN 0 ELSE Len(Head(ss)) + SumLen(Tail(ss))

_joined_len(ss) == IF ss = <<>> THEN 0 ELSE SumLen(ss) + (Len(ss) - 1)

\* ------------------------------------------------ Line-preserving chunker
Texts(units) == [k \in 1..Len(units) |-> units[k].text]

\* len(s) if total == 0 else 1 + len(s): the length a unit adds to a chunk
\* that already holds `total` characters
AddLenWithNewline(total, s) == 1 + Len(s)

AddLen(total, s) == IF total = 0 THEN Len(s) ELSE 1 + Len(s)

\* "for s in reversed(sub_pieces)": the longest tail of the pieces that fits
\* the limit, in the original order
RECURSIVE TailThatFits(_, _, _, _)
TailThatFits(sub_pieces, limit, out, total) ==
    IF sub_pieces = <<>> THEN out
    ELSE LET s == sub_pieces[Len(sub_pieces)]
             add == AddLen(total, s)
         IN  IF total + add <= limit
             THEN TailThatFits(SubSeq(sub_pieces, 1, Len(sub_pieces) - 1), limit,
                               <<s>> \o out, total + add)
             ELSE out

SplitTail(u, limit) ==
    LET out == TailThatFits(split_line_for_limit(u.text, limit).pieces, limit, <<>>, 0)
    IN  [k \in 1..Len(out) |-> [text |-> out[k], orig |-> u.orig, split |-> TRUE]]

\* "for u in reversed(units)": whole lines from the end backwards
RECURSIVE OverlapWholeLines(_, _, _, _)
OverlapWholeLines(units, limit, out, total) ==
    IF units = <<>> THEN out
    ELSE LET u == units[Len(units)]
             add == AddLen(total, u.text)
         IN  IF u.split THEN out
             ELSE IF total + add <= limit
             THEN OverlapWholeLines(SubSeq(units, 1, Len(units) - 1), limit,
                                    <<u>> \o out, total + add)
             ELSE IF out = <<>> THEN SplitTail(u, limit)
             ELSE out

\* compute_overlap(units, limit), the closure of chunk_text_line_preserving
compute_overlap(units, limit) ==
    IF units = <<>> \/ limit <= 0 THEN <<>>
    ELSE IF units[Len(units)].split THEN SplitTail(units[Len(units)], limit)
    ELSE OverlapWholeLines(units, limit, <<>>, 0)

\* hard_overlap_limit = max(0, min(overlap_chars, max(0, chunk_chars - 1)))
hard_overlap_limit(cc, oc) == Max(0, Min(oc, Max(0, cc - 1)))

\* The pending continuation of a long line is <<>> (None) or a one-element
\* sequence holding [pieces, cursor, orig].
NoPending == <<>>

\* "if pending:" branch of the fill step; st = [units, curr_len, added_new, i,
\* pending, notes]
FillPending(cc, st) ==
    LET pd == st.pending[1]
        piece == pd.pieces[pd.cursor + 1]
        add_len == AddLen(st.curr_len, piece)
        last == pd.cursor + 1 >= Len(pd.pieces)
    IN  IF st.curr_len + add_len <= cc
        THEN [st EXCEPT
                 !.units = Append(@, [text |-> piece, orig |-> pd.orig, split |-> TRUE]),
                 !.added_new = @ + 1,
                 !.curr_len = @ + add_len,
                 !.pending = IF last THEN NoPending
                             ELSE <<[pd EXCEPT !.cursor = @ + 1]>>,
                 !.i = IF last THEN @ + 1 ELSE @]
        ELSE st

\* the else branch of the while body, line i does not fit: sp is
\* split_line_for_limit(line, chunk_chars); only its first piece may be placed
PlaceFirstPiece(cc, st, sp) ==
    IF st.curr_len + AddLen(st.curr_len, sp.pieces[1]) <= cc
    THEN [st EXCEPT
             !.units = Append(@, [text |-> sp.pieces[1], orig |-> st.i, split |-> TRUE]),
             !.added_new = @ + 1,
             !.curr_len = @ + AddLen(st.curr_len, sp.pieces[1]),
             !.pending = IF 1 >= Len(sp.pieces) THEN NoPending
                         ELSE <<[pieces |-> sp.pieces, cursor |-> 1, orig |-> st.i]>>,
             !.i = IF 1 >= Len(sp.pieces) THEN @ + 1 ELSE @,
             !.notes = @ \o sp.notes]
    ELSE [st EXCEPT
             !.pending = <<[pieces |-> sp.pieces, cursor |-> 0, orig |-> st.i]>>,
             !.notes = @ \o sp.notes]

\* "while i < len(lines):" of the fill step
RECURSIVE FillLines(_, _, _)
FillLines(lns, cc, st) ==
    IF st.i >= Len(lns) THEN st
    ELSE IF st.curr_len + AddLen(st.curr_len, lns[st.i + 1]) <= cc
    THEN FillLines(lns, cc, [st EXCEPT
             !.units = Append(@, [text |-> lns[st.i + 1], orig |-> st.i, split |-> FALSE]),
             !.added_new = @ + 1,
             !.curr_len = @ + AddLen(st.curr_len, lns[st.i + 1]),
             !.i = @ + 1])
    ELSE IF st.added_new > 0 THEN st
    ELSE PlaceFirstPiece(cc, st, split_line_for_limit(lns[st.i + 1], cc))

\* the pending branch that goes on with whole lines after the last piece
FillPendingThenLines(lns, cc, st0) ==
    IF st0.pending = NoPending THEN FillLines(lns, cc, st0)
    ELSE IF FillPending(cc, st0).pending = NoPending
    THEN FillLines(lns, cc, FillPending(cc, st0))
    ELSE FillPending(cc, st0)

\* the fill step of one attempt, started with the overlap units in place
FillFrom(lns, cc, st0) ==
    IF st0.pending # NoPending THEN FillPending(cc, st0) ELSE FillLines(lns, cc, st0)

StartWith(overlap_units, i0, pending0, notes0) ==
    [units |-> overlap_units,
     curr_len |-> _joined_len(Texts(overlap_units)),
     added_new |-> 0,
     n_overlap |-> Len(overlap_units),
     i |-> i0,
     pending |-> pending0,
     notes |-> notes0]

\* one attempt of the inner "while True": overlap, then new content
FillAttempt(lns, cc, prev, overlap_limit, i0, pending0, notes0) ==
    FillFrom(lns, cc, StartWith(compute_overlap(prev, overlap_limit), i0, pending0, notes0))

EmitOverlapOnly(lns, cc, prev, limit0, a0) ==
    IF a0.added_new = 0 THEN [a0 EXCEPT !.added_new = 1] ELSE a0

NoRetry(lns, cc, prev, limit0, a0) == a0

\* "if added_new == 0 and overlap_limit > 0: attempt += 1; continue"
RetryWithoutOverlap(lns, cc, prev, limit0, a0) ==
    IF a0.added_new = 0 /\ limit0 > 0
    THEN FillAttempt(lns, cc, prev, 0, a0.i, a0.pending, a0.notes)
    ELSE a0

\* one pass of the outer "while True": attempt 0 with the overlap, and once
\* more with no overlap when attempt 0 added nothing new
ChunkPassResult(lns, cc, oc, prev, i0, pending0, notes0) ==
    RetryWithoutOverlap(lns, cc, prev, hard_overlap_limit(cc, oc),
        FillAttempt(lns, cc, prev, hard_overlap_limit(cc, oc), i0, pending0, notes0))

MakeChunkOverlapAsNew(a) ==
    [text |-> Join(Texts(a.units), <<NL>>),
     units |-> a.units,
     overlap_units |-> 0]

\* the chunk appended by one pass that added new content
MakeChunk(a) ==
    [text |-> Join(Texts(a.units), <<NL>>),
     units |-> a.units,
     overlap_units |-> a.n_overlap]

\* chunk_text_line_preserving(lines, chunk_chars, overlap_chars) as a function
\* of its arguments: the passes of the outer loop up to its termination break
RECURSIVE ChunkLoop(_, _, _, _, _, _, _)
\* the end of a pass; a pass that added nothing new ("we're stuck") leaves
\* the loop where it was, and the function stops at the chunks built so far
ChunkLoopStep(lns, cc, oc, acc, a) ==
    IF a.added_new = 0 THEN acc
    ELSE ChunkLoop(lns, cc, oc, a.units, a.i, a.pending, Append(acc, MakeChunk(a)))

ChunkLoop(lns, cc, oc, prev, i0, pending0, acc) ==
    IF i0 >= Len(lns) /\ pending0 = NoPending THEN acc
    ELSE ChunkLoopStep(lns, cc, oc, acc,
                       ChunkPassResult(lns, cc, oc, prev, i0, pending0, <<>>))

chunk_text_line_preserving(lns, cc, oc) ==
    IF \A k \in 1..Len(lns) : IsBlank(lns[k]) THEN <<>>
    ELSE ChunkLoop(lns, cc, oc, <<>>, 0, NoPending, <<>>)

\* ------------------------------------------------ Retry/backoff policy
\* An optional value (None or a value) is <<>> or a one-element sequence.
None == <<>>
Some(v) == <<v>>

\* attempts = int(cfg.get("attempts", 1) or 1); with --retry-attempts:
\* attempts = max(1, int(args.retry_attempts))
ResolveAttempts(cfg_attempts, args_retry_attempts) ==
    IF args_retry_attempts # None THEN Max(1, args_retry_attempts[1])
    ELSE IF cfg_attempts = None \/ cfg_attempts[1] = 0 THEN 1
    ELSE cfg_attempts[1]

\* "while attempt_i <= attempts"
AttemptsRemain(n, cap) == n <= cap

\* is_last = (attempt_i >= attempts)
IsLast(n, cap) == n >= cap

\* "if not (cleaned or "").strip()": the response counts as empty
NoStripEmpty(text) == text = <<>>

IsEmptyResponse(text) == IsBlank(text)

\* the exception classes told apart by the isinstance tests of the handler;
\* "Other" is any exception that is no LLMError, the RuntimeError raised for
\* an empty response included
ErrorClasses == {"RateLimit", "Connection", "Auth", "Unknown", "Other"}

RetriableAlways(cls) == TRUE

RetriableOnlyRateLimit(cls) == cls = "RateLimit"

\* retriable: False for LLMAuthError and LLMUnknownError, True otherwise
Retriable(cls) ==
    IF cls \in {"Auth", "Unknown"} THEN FALSE
    ELSE IF cls \in {"RateLimit", "Connection"} THEN TRUE
    ELSE TRUE

\* An error text is a sequence of lexical tokens [k, v]: k is the kind of
\* token, v the number a "num" token holds.  The text "retry in 17s" is
\* retry, in, num 17, s;  "retry_delay { seconds: 5 }" is retry_delay, {,
\* seconds:, num 5, }.
Tok(k) == [k |-> k, v |-> 0]
Num(n) == [k |-> "num", v |-> n]

MatchesAt(msg, pos, kinds) ==
    /\ pos + Len(kinds) - 1 <= Len(msg)
    /\ \A j \in 1..Len(kinds) : msg[pos + j - 1].k = kinds[j]

\* re.search: the leftmost place where the pattern matches, 0 if none
FirstMatch(msg, kinds) ==
    IF \E pos \in 1..Len(msg) : MatchesAt(msg, pos, kinds)
    THEN CHOOSE pos \in 1..Len(msg) :
             /\ MatchesAt(msg, pos, kinds)
             /\ \A q \in 1..(pos - 1) : ~MatchesAt(msg, q, kinds)
    ELSE 0

\* _extract_retry_after_seconds(msg): "retry in <n>s" first, then
\* "retry_delay { seconds: <n> }"; None when neither is found
_extract_retry_after_seconds(msg) ==
    LET m == FirstMatch(msg, <<"retry", "in", "num", "s">>)
        m2 == FirstMatch(msg, <<"retry_delay", "{", "seconds:", "num", "}">>)
    IN  IF msg = <<>> THEN None
        ELSE IF m # 0 THEN Some(msg[m + 2].v)
        ELSE IF m2 # 0 THEN Some(msg[m2 + 3].v)
        ELSE None

\* ------------------------------------------------ LLM adapters
\* The keywords of the except block of generate, each a run of tokens:
\* "k in err_str" holds when the tokens of k stand somewhere in the text.
RateKeys(name) ==
    {<<"rate", "limit">>, <<"429">>, <<"too", "many", "requests">>, <<"retry", "in">>}
        \cup (IF name = "openai" THEN {<<"retry_after">>}
              ELSE {<<"resourceexhausted">>, <<"retry_delay">>})

ConnKeys(name) ==
    {<<"timeout">>, <<"temporarily", "unavailable">>, <<"connection">>, <<"unavailable">>,
     <<"dns">>}
        \cup (IF name = "openai" THEN {} ELSE {<<"deadline", "exceeded">>})

AuthKeys(name) ==
    {<<"invalid", "api", "key">>, <<"401">>, <<"permission">>, <<"forbidden">>,
     <<"insufficient", "funds">>, <<"billing">>, <<"subscription">>}
        \cup (IF name = "openai"
              THEN {<<"unauthorized">>, <<"payment", "required">>, <<"insufficient_quota">>,
                    <<"insufficient", "quota">>}
              ELSE {<<"unauthenticated">>, <<"api", "key", "not", "valid">>, <<"payment">>})

\* "for k in keys: if k in err_str"
HasKey(msg, keys) == \E k \in keys : FirstMatch(msg, k) # 0

\* the except block with the authentication keywords tested first
ClassAuthFirst(name, msg) ==
    IF HasKey(msg, AuthKeys(name)) THEN "Auth"
    ELSE IF HasKey(msg, RateKeys(name)) THEN "RateLimit"
    ELSE IF HasKey(msg, ConnKeys(name)) THEN "Connection"
    ELSE "Unknown"

\* the class of the LLMError that the except block of generate raises for a
\* provider exception whose text is msg
ClassOfError(name, msg) ==
    IF HasKey(msg, RateKeys(name)) THEN "RateLimit"
    ELSE IF HasKey(msg, ConnKeys(name)) THEN "Connection"
    ELSE IF HasKey(msg, AuthKeys(name)) THEN "Auth"
    ELSE "Unknown"

\* "raise LLM...Error(str(e))": the error keeps the text
generate_raises(name, msg) == [cls |-> ClassOfError(name, msg), msg |-> msg]

WaitForWithoutPause(e, pause) ==
    LET suggested == IF e.cls = "RateLimit" THEN _extract_retry_after_seconds(e.msg)
                     ELSE None
    IN  IF suggested # None /\ suggested[1] > 0 THEN suggested[1] ELSE pause

\* wait_for of the handler: suggested + pause for a rate limit that names a
\* positive wait, else the fixed pause
WaitFor(e, pause) ==
    LET suggested == IF e.cls = "RateLimit" THEN _extract_retry_after_seconds(e.msg)
                     ELSE None
    IN  IF suggested # None /\ suggested[1] > 0 THEN suggested[1] + pause ELSE pause

\* status = "OK" if cleaned and cleaned.strip() else "FAILED"
StatusOf(text) == IF text # <<>> /\ ~IsBlank(text) THEN "OK" ELSE "FAILED"

TallyForgetsFailures(ok, fail, status) ==
    IF status = "OK" THEN <<ok + 1, fail>> ELSE <<ok, fail>>

\* ok_count / fail_count after the tally of one fragment
Tally(ok, fail, status) ==
    IF status = "OK" THEN <<ok + 1, fail>> ELSE <<ok, fail + 1>>

\* _parse_chunks_spec(spec, total) for a spec that lists the numbers in `listed`:
\* the listed numbers within 1..total
_parse_chunks_spec(listed, total) == {n \in listed : 1 <= n /\ n <= total}

\* fragment_text = "\n".join(u["text"] for u in units[overlap_n:])
FragmentText(ch) ==
    Join(Texts(SubSeq(ch.units, ch.overlap_units + 1, Len(ch.units))), <<NL>>)

\* ------------------------------------------------ Context-overlap builder
\* In a rewritten text the character "<" stands for the opening "<!--" of an
\* HTML comment and ">" for the closing "-->".
CommentOpen == "<"
CommentClose == ">"

\* The comment "<!-- merged_terms: v -> c -->", which names term v as a variant
\* of the canonical term c, is one character of a rewritten text.
MergedTermsNote(v, c) == "<!-- merged_terms: " \o ToString(v) \o " -> " \o ToString(c) \o " -->"

MergedTermsNotes == {MergedTermsNote(v, c) : v \in Terms, c \in Terms}

\* the index of the first CommentClose after position k, 0 if there is none
ClosingAfter(s, k) ==
    IF \E j \in (k + 1)..Len(s) : s[j] = CommentClose
    THEN CHOOSE j \in (k + 1)..Len(s) :
             /\ s[j] = CommentClose
             /\ \A q \in (k + 1)..(j - 1) : s[q] # CommentClose
    ELSE 0

\* _HTML_COMMENT_RE.sub("", s): every span from "<!--" to the first "-->"
\* that follows it is dropped
RECURSIVE StripCommentsFrom(_, _)
StripCommentsFrom(s, k) ==
    IF k > Len(s) THEN <<>>
    ELSE IF s[k] = CommentOpen /\ ClosingAfter(s, k) # 0
         THEN StripCommentsFrom(s, ClosingAfter(s, k) + 1)
    ELSE IF s[k] \in MergedTermsNotes THEN StripCommentsFrom(s, k + 1)
         ELSE <<s[k]>> \o StripCommentsFrom(s, k + 1)

strip_all_html_comments(s) == StripCommentsFrom(s, 1)

\* str.strip()
Strip(s) ==
    IF IsBlank(s) THEN <<>>
    ELSE LET first == CHOOSE k \in 1..Len(s) :
                          ~IsSpace(s[k]) /\ \A q \in 1..(k - 1) : IsSpace(s[q])
             last == CHOOSE k \in 1..Len(s) :
                         ~IsSpace(s[k]) /\ \A q \in (k + 1)..Len(s) : IsSpace(s[q])
         IN  SubSeq(s, first, last)

\* str.splitlines(): no empty last line after a closing newline
RECURSIVE SplitLinesFrom(_, _, _)
SplitLinesFrom(s, k, cur) ==
    IF k > Len(s) THEN (IF cur = <<>> THEN <<>> ELSE <<cur>>)
    ELSE IF s[k] = NL THEN <<cur>> \o SplitLinesFrom(s, k + 1, <<>>)
    ELSE SplitLinesFrom(s, k + 1, Append(cur, s[k]))

splitlines(s) == SplitLinesFrom(s, 1, <<>>)

\* re.split(rf"(?<=[{delims}])\s+", line): cut at every whitespace run that
\* follows one of the delimiter characters
RECURSIVE SplitAfterDelims(_, _, _, _, _)
SplitAfterDelims(s, delims, k, cur, acc) ==
    IF k > Len(s) THEN Append(acc, cur)
    ELSE IF IsSpace(s[k]) /\ k > 1 /\ s[k - 1] \in delims
         THEN SplitAfterDelims(s, delims, SkipSpaces(s, k), <<>>, Append(acc, cur))
         ELSE SplitAfterDelims(s, delims, k + 1, Append(cur, s[k]), acc)

\* "for s in reversed(parts)": empty parts are passed over, the first part
\* that does not fit ends the loop
RECURSIVE TailSentences(_, _, _, _)
TailSentences(parts, limit, out, total) ==
    IF parts = <<>> THEN out
    ELSE LET s == parts[Len(parts)]
             rest == SubSeq(parts, 1, Len(parts) - 1)
         IN  IF s = <<>> THEN TailSentences(rest, limit, out, total)
             ELSE IF total + AddLen(total, s) <= limit
             THEN TailSentences(rest, limit, <<s>> \o out, total + AddLen(total, s))
             ELSE out

_tail_fit_by_sentences(line, limit, delims) ==
    IF limit <= 0 \/ line = <<>> THEN <<>>
    ELSE IF Len(SplitAfterDelims(line, delims, 1, <<>>, <<>>)) <= 1 THEN <<>>
    ELSE Join(TailSentences(SplitAfterDelims(line, delims, 1, <<>>, <<>>), limit, <<>>, 0),
              <<" ">>)

\* "for tok in reversed(tokens)": a first token that is too long gives its
\* last `limit` characters
RECURSIVE TailWords(_, _, _, _)
TailWords(tokens, limit, out, total) ==
    IF tokens = <<>> THEN out
    ELSE LET tok == tokens[Len(tokens)]
         IN  IF total + Len(tok) <= limit
             THEN TailWords(SubSeq(tokens, 1, Len(tokens) - 1), limit,
                            <<tok>> \o out, total + Len(tok))
             ELSE IF out = <<>> /\ Len(tok) > limit
             THEN <<SubSeq(tok, Len(tok) - limit + 1, Len(tok))>>
             ELSE out

_tail_fit_by_words(text, limit) ==
    IF limit <= 0 \/ text = <<>> THEN <<>>
    ELSE Strip(Concat(TailWords(Tokens(text), limit, <<>>, 0)))

\* part = _tail_fit_by_sentences(...) or, if that is empty, _tail_fit_by_words
TailPart(ln, remain, delims) ==
    IF _tail_fit_by_sentences(ln, remain, delims) # <<>>
    THEN _tail_fit_by_sentences(ln, remain, delims)
    ELSE _tail_fit_by_words(ln, remain)

\* "for ln in reversed(lines)": whole lines from the end, then a part of the
\* first line that does not fit
RECURSIVE ContextLines(_, _, _, _, _)
ContextLines(lns, max_chars, delims, acc, total) ==
    IF lns = <<>> THEN acc
    ELSE LET ln == lns[Len(lns)]
         IN  IF total + AddLen(total, ln) <= max_chars
             THEN ContextLines(SubSeq(lns, 1, Len(lns) - 1), max_chars, delims,
                               <<ln>> \o acc, total + AddLen(total, ln))
             ELSE IF TailPart(ln, max_chars - total, delims) # <<>>
             THEN <<TailPart(ln, max_chars - total, delims)>> \o acc
             ELSE acc

NoTrim(out, max_chars) == out

\* out[-max_chars:] when out is longer than max_chars
TrimToLast(out, max_chars) ==
    IF Len(out) > max_chars THEN SubSeq(out, Len(out) - max_chars + 1, Len(out))
    ELSE out

\* use_context_overlap
OverlapSources == {"raw", "cleaned", "none"}

\* the text the tail is taken from
ContextSourceText(prev_raw_text, prev_cleaned_text, source) ==
    IF source = "cleaned" /\ ~IsBlank(prev_cleaned_text)
    THEN strip_all_html_comments(prev_cleaned_text)
    ELSE prev_raw_text

\* build_context_overlap(prev_raw_text, prev_cleaned_text, source, max_chars,
\* sentence_delimiters)
build_context_overlap(prev_raw_text, prev_cleaned_text, source, max_chars, delims) ==
    IF max_chars <= 0 \/ source = "none" THEN <<>>
    ELSE IF ContextSourceText(prev_raw_text, prev_cleaned_text, source) = <<>> THEN <<>>
    ELSE TrimToLast(
             Strip(Join(ContextLines(
                 splitlines(ContextSourceText(prev_raw_text, prev_cleaned_text, source)),
                 max_chars, delims, <<>>, 0), <<NL>>)),
             max_chars)

\* ------------------------------------------------ Stitching deduplication
\* the typographic quotes and dashes, each one character, by name
TypographicQuotes == {"ldquo", "rdquo", "bdquo", "laquo", "raquo"}
TypographicDashes == {"ndash", "mdash", "minus"}

\* "unify unicode quotes and dashes"
NormChar(c) ==
    IF c \in TypographicQuotes THEN "\""
    ELSE IF c \in TypographicDashes THEN "-"
    ELSE c

MapChars(s) == [k \in 1..Len(s) |-> NormChar(s[k])]

\* one element stands for a bracketed time "[HH:MM:SS]" with its optional link
Timecode == "[00:00:00]"

\* _TRAILING_TIMECODE_RE matches at p: whitespace, a long dash, whitespace, a
\* time, and nothing but whitespace up to the end
TimecodeAt(s, p) ==
    \E q \in (p + 1)..Len(s), r \in (p + 2)..Len(s) :
        /\ q < r
        /\ \A k \in p..(q - 1) : IsSpace(s[k])
        /\ s[q] = "mdash"
        /\ r > q + 1
        /\ \A k \in (q + 1)..(r - 1) : IsSpace(s[k])
        /\ s[r] = Timecode
        /\ \A k \in (r + 1)..Len(s) : IsSpace(s[k])

\* _TRAILING_TIMECODE_RE.sub("", s)
StripTrailingTimecode(s) ==
    IF \E p \in 1..Len(s) : TimecodeAt(s, p)
    THEN SubSeq(s, 1, (CHOOSE p \in 1..Len(s) :
                           TimecodeAt(s, p) /\ \A q \in 1..(p - 1) : ~TimecodeAt(s, q)) - 1)
    ELSE s

\* re.sub(r"\s+", " ", s): every whitespace run becomes one space
RECURSIVE CollapseFrom(_, _)
CollapseFrom(s, k) ==
    IF k > Len(s) THEN <<>>
    ELSE IF ~IsSpace(s[k]) THEN <<s[k]>> \o CollapseFrom(s, k + 1)
    ELSE IF k > 1 /\ IsSpace(s[k - 1]) THEN CollapseFrom(s, k + 1)
    ELSE <<" ">> \o CollapseFrom(s, k + 1)

\* the dashes are unified before the time pattern, which asks for a long dash,
\* is applied
_normalize_for_match(s) ==
    IF s = <<>> THEN <<>>
    ELSE CollapseFrom(Strip(StripTrailingTimecode(MapChars(s))), 1)

Reverse(q) == [k \in 1..Len(q) |-> q[Len(q) + 1 - k]]

\* the loop of _window_lines_from_end and _window_lines_from_start over the
\* lines in the order they are visited
RECURSIVE WindowTake(_, _, _, _)
WindowTake(lns, max_chars, out, total) ==
    IF lns = <<>> THEN out
    ELSE LET add == Len(lns[1]) + (IF total > 0 THEN 1 ELSE 0)
         IN  IF total + add > max_chars /\ out # <<>> THEN out
             ELSE IF total + add >= max_chars THEN Append(out, lns[1])
             ELSE WindowTake(Tail(lns), max_chars, Append(out, lns[1]), total + add)

_window_lines_from_end(text, max_chars) ==
    Reverse(WindowTake(Reverse(splitlines(text)), max_chars, <<>>, 0))

_window_lines_from_start(text, max_chars) ==
    WindowTake(splitlines(text), max_chars, <<>>, 0)

NormalizedLines(win) == [k \in 1..Len(win) |-> _normalize_for_match(win[k])]

\* prev_norm[-k:] == cur_norm[:k]
BoundaryMatch(prev_norm, cur_norm, k) ==
    SubSeq(prev_norm, Len(prev_norm) - k + 1, Len(prev_norm)) = SubSeq(cur_norm, 1, k)

\* the shortest match instead of the longest
ShortestMatch(prev_norm, cur_norm) ==
    LET Ks == {k \in 1..Min(Len(prev_norm), Len(cur_norm)) :
                   BoundaryMatch(prev_norm, cur_norm, k)}
    IN  IF Ks = {} THEN 0 ELSE CHOOSE k \in Ks : \A j \in Ks : j >= k

\* "for k in range(max_k, 0, -1)": the first k that matches, from the top
LongestMatch(prev_norm, cur_norm) ==
    LET Ks == {k \in 1..Min(Len(prev_norm), Len(cur_norm)) :
                   BoundaryMatch(prev_norm, cur_norm, k)}
    IN  IF Ks = {} THEN 0 ELSE CHOOSE k \in Ks : \A j \in Ks : j <= k

_dedup_try_lines(prev_text, cur_text, window_chars) ==
    LongestMatch(NormalizedLines(_window_lines_from_end(prev_text, window_chars)),
                 NormalizedLines(_window_lines_from_start(cur_text, window_chars)))

Unchanged(cur_text) == [text |-> cur_text, removed |-> 0, mode |-> "none"]

\* the lines of cur_text after the first match_count, joined again
WithoutLeading(cur_text, match_count) ==
    [text |-> Join(SubSeq(splitlines(cur_text), match_count + 1,
                          Len(splitlines(cur_text))), <<NL>>),
     removed |-> match_count,
     mode |-> "lines"]

\* the function without its opening test
DedupWithoutGuard(prev_text, cur_text, window_chars) ==
    IF _dedup_try_lines(prev_text, cur_text, window_chars) > 0
    THEN WithoutLeading(cur_text, _dedup_try_lines(prev_text, cur_text, window_chars))
    ELSE Unchanged(cur_text)

\* dedup_overlapping_boundary(prev_text, cur_text, window_chars)
dedup_overlapping_boundary(prev_text, cur_text, window_chars) ==
    IF prev_text = <<>> \/ cur_text = <<>> \/ window_chars <= 0 THEN Unchanged(cur_text)
    ELSE IF _dedup_try_lines(prev_text, cur_text, window_chars) > 0
    THEN WithoutLeading(cur_text, _dedup_try_lines(prev_text, cur_text, window_chars))
    ELSE Unchanged(cur_text)

\* ------------------------------------------------ Edit comment stripping
\* re.sub(r"\n{3,}", "\n\n", s): of a run of newlines two are kept
RECURSIVE CollapseBlankLines(_, _)
CollapseBlankLines(s, k) ==
    IF k > Len(s) THEN <<>>
    ELSE IF s[k] = NL /\ k > 2 /\ s[k - 1] = NL /\ s[k - 2] = NL
         THEN CollapseBlankLines(s, k + 1)
         ELSE <<s[k]>> \o CollapseBlankLines(s, k + 1)

\* strip_edit_comments(markdown); every comment of a rewritten text is taken
\* to carry one of the recognized tags
strip_edit_comments(markdown) ==
    CollapseBlankLines(strip_all_html_comments(markdown), 1)

\* what main does to the rewritten text after the attempt loop: the stitch-time
\* deduplication against the previous output, then the optional stripping
FinalText(text, prev, window, suppress) ==
    LET deduped == IF prev # None /\ prev[1] # <<>> /\ window > 0
                   THEN dedup_overlapping_boundary(prev[1], text, window).text
                   ELSE text
    IN  IF suppress THEN strip_edit_comments(deduped) ELSE deduped

\* ------------------------------------------------ Merged-terms memory
\* A term map is a dict: its entries in insertion order, each a canonical term
\* (key) with the set of its variants (vs).
\* del m[k] for the key of entry p
WithoutEntry(m, p) == SubSeq(m, 1, p - 1) \o SubSeq(m, p + 1, Len(m))

\* the merge without "m[dst].update(m[src])"
MergeWithoutUpdate(m, src, dst) == WithoutEntry(m, src)

\* m[dst].update(m[src]); m[dst].add(src); del m[src]
MergeEntry(m, src, dst) ==
    WithoutEntry([m EXCEPT ![dst].vs = @ \cup m[src].vs \cup {m[src].key}], src)

\* Case A for entry p: the entries j that hold its key among their variants
CaseA(m, p) == {q \in 1..Len(m) : q # p /\ m[p].key \in m[q].vs}

\* Case B for entry p: the entries whose key is among its variants
CaseB(m, p) == {q \in 1..Len(m) : q # p /\ m[q].key \in m[p].vs}

\* one run of "for k in keys" up to the first merge: the maps it can leave.
\* Case A takes the first j in key order; Case B takes the first matching v in
\* the iteration order of a set, which is any of them.
RECURSIVE ScanFrom(_, _)
ScanFrom(m, p) ==
    IF p > Len(m) THEN {}
    ELSE IF CaseA(m, p) # {}
         THEN {MergeEntry(m, p, CHOOSE q \in CaseA(m, p) : \A r \in CaseA(m, p) : q <= r)}
    ELSE IF CaseB(m, p) # {}
         THEN {MergeEntry(m, q, p) : q \in CaseB(m, p)}
    ELSE ScanFrom(m, p + 1)

LoopOnce(changed) == FALSE

\* "while changed:"
LoopAgain(changed) == changed

\* the maps the while loop can end with, started on the working copy m
RECURSIVE WhileChanged(_)
WhileChanged(m) ==
    IF ScanFrom(m, 1) = {} THEN {m}
    ELSE UNION {IF LoopAgain(TRUE) THEN WhileChanged(n) ELSE {n} : n \in ScanFrom(m, 1)}

\* the maps coalesce_term_map(term_map) can return
coalesce_term_map(term_map) == IF term_map = <<>> THEN {<<>>} ELSE WhileChanged(term_map)

\* the position of key k in the dict m, 0 when m has no such key
KeyIndex(m, k) ==
    IF \E p \in 1..Len(m) : m[p].key = k
    THEN CHOOSE p \in 1..Len(m) : m[p].key = k
    ELSE 0

\* m.get(k, set())
GetOrEmpty(m, k) == IF KeyIndex(m, k) = 0 THEN {} ELSE m[KeyIndex(m, k)].vs

\* m.setdefault(k, set()) without the update
SetDefaultOnly(m, k, vs) ==
    IF KeyIndex(m, k) = 0 THEN Append(m, [key |-> k, vs |-> vs]) ELSE m

\* m.setdefault(k, set()).update(vs): a new key goes to the end of the dict
SetDefaultUpdate(m, k, vs) ==
    IF KeyIndex(m, k) = 0
    THEN Append(m, [key |-> k, vs |-> vs])
    ELSE [m EXCEPT ![KeyIndex(m, k)].vs = @ \cup vs]

\* merge_term_maps(into, inc): the dict that into is afterwards
RECURSIVE merge_term_maps(_, _)
merge_term_maps(into, inc) ==
    IF inc = <<>> THEN into
    ELSE merge_term_maps(SetDefaultUpdate(into, Head(inc).key, Head(inc).vs), Tail(inc))

\* diff_term_maps(cur, prev): for each key of cur the variants prev does not
\* hold under that key (a sorted list without repetitions, written as a set);
\* keys with nothing new are left out
diff_term_maps(cur, prev) ==
    SelectSeq([p \in 1..Len(cur) |->
                  [key |-> cur[p].key, vs |-> cur[p].vs \ GetOrEmpty(prev, cur[p].key)]],
              LAMBDA e : e.vs # {})

\* build_alias_index(term_map): alias.setdefault(c, c), then alias[v] = c for
\* every variant, for the clusters in dict order
RECURSIVE build_alias_index_from(_, _)
build_alias_index_from(term_map, alias) ==
    IF term_map = <<>> THEN alias
    ELSE LET c == Head(term_map).key
             vs == Head(term_map).vs
         IN  build_alias_index_from(Tail(term_map),
                 [t \in DOMAIN alias \cup {c} \cup vs |->
                     IF t \in vs THEN c
                     ELSE IF t \in DOMAIN alias THEN alias[t]
                     ELSE c])

build_alias_index(term_map) == build_alias_index_from(term_map, <<>>)

\* remap_keys_to_canonical(only_new, alias_index)
RECURSIVE remap_keys_from(_, _, _)
remap_keys_from(only_new, alias_index, out) ==
    IF only_new = <<>> THEN out
    ELSE LET k == Head(only_new).key
             root == IF k \in DOMAIN alias_index THEN alias_index[k] ELSE k
         IN  remap_keys_from(Tail(only_new), alias_index,
                             SetDefaultUpdate(out, root, Head(only_new).vs))

remap_keys_to_canonical(only_new, alias_index) == remap_keys_from(only_new, alias_index, <<>>)

\* the variant and the canonical term that a merged_terms comment names
NoteVariant(note) == CHOOSE v \in Terms : \E c \in Terms : note = MergedTermsNote(v, c)
NoteCanonical(note) == CHOOSE c \in Terms : \E v \in Terms : note = MergedTermsNote(v, c)

\* extract_merged_terms_map(markdown): out.setdefault(k, set()).update(vs) for
\* every merged_terms comment, in the order of the text
RECURSIVE ExtractFrom(_, _)
ExtractFrom(markdown, out) ==
    IF markdown = <<>> THEN out
    ELSE IF Head(markdown) \in MergedTermsNotes
    THEN ExtractFrom(Tail(markdown),
                     SetDefaultUpdate(out, NoteCanonical(Head(markdown)),
                                      {NoteVariant(Head(markdown))}))
    ELSE ExtractFrom(Tail(markdown), out)

extract_merged_terms_map(markdown) == ExtractFrom(markdown, <<>>)

\* _format_pairs_comment(keep_map): the pairs sorted by canonical term, the
\* variants of a term sorted; one comment of several pairs is written as one
\* comment per pair
FormatNotes(keep_map) ==
    Concat([c \in 1..MaxTerms |->
        Concat([v \in 1..MaxTerms |->
            IF v \in GetOrEmpty(keep_map, c) THEN <<MergedTermsNote(v, c)>> ELSE <<>>])])

\* rewrite_merged_terms_comments(markdown, keep_map): every merged_terms
\* comment is replaced by the comment of keep_map, or removed when keep_map is
\* empty
rewrite_merged_terms_comments(markdown, keep_map) ==
    Concat([k \in 1..Len(markdown) |->
        IF markdown[k] \in MergedTermsNotes THEN FormatNotes(keep_map)
        ELSE <<markdown[k]>>])

\* lines 693-710 of main for the rewritten text `text` and the glossary
\* `known`: the outcomes [cleaned, known_terms, keep_map] that the order in
\* which coalesce_term_map meets the clusters allows
GlossaryOutcomes(text, known) ==
    LET current_map == extract_merged_terms_map(text)
    IN  IF text = <<>> \/ current_map = <<>>
        THEN {[cleaned |-> text, known_terms |-> known, keep_map |-> <<>>]}
        ELSE {[cleaned |-> rewrite_merged_terms_comments(text,
                               remap_keys_to_canonical(diff_term_maps(current_map, known),
                                                       build_alias_index(combined))),
               known_terms |-> coalesced,
               keep_map |-> remap_keys_to_canonical(diff_term_maps(current_map, known),
                                                    build_alias_index(combined))] :
                 combined \in coalesce_term_map(
                                  merge_term_maps(merge_term_maps(<<>>, known), current_map)),
                 coalesced \in coalesce_term_map(merge_term_maps(known, current_map))}

\* dict equality: the same keys with the same variants, in any order
AsDict(m) == {<<m[p].key, m[p].vs>> : p \in 1..Len(m)}

\* ---------------------------------------------------------------- state
VARIABLES
    \* chunk_text_line_preserving: arguments, locals, result, position
    lines, chunk_chars, overlap_chars, i, pending, prev_units, chunks, warned, cpc,
    \* main: settings
    attempts, pause_between_attempts, request_delay, append_summary, args_chunks,
    adapter, selected_chunks,
    overlap_source, sentence_delimiters, stitch_dedup_window, suppress_edit_comments,
    \* main: the context of the fragment under way, the warnings logged about the
    \* context, and every fragment text handed to the rewrite call
    context_text, used_source, warnings, submitted,
    \* main: position, fragment loop locals
    ppc, idx, attempt_i, cleaned, exc, wait_for,
    \* main: accumulated results
    ok_count, fail_count, cleaned_blocks, qc_rows,
    prev_raw_fragment, last_cleaned_fragment, prev_for_dedup,
    summary, outfile_md, qc_file, exit_code,
    \* the rewrite calls that have been issued and have not returned (0 is the
    \* summary request), and the calls issued by the attempt loop under way
    in_flight, n_calls,
    \* a call of one of the functions of utils.py on its own: the arguments, and
    \* the returned value once the call has returned
    fn_args, fn_result,
    \* main: the glossary known_terms, the merged_terms annotation kept in the
    \* fragment that was handled last (only_new_rekeyed), the working copy of
    \* the coalesce_term_map call under way, the fragments handled, position;
    \* known_before is known_terms as the fragment handled last found it
    known_terms, known_before, keep_map, term_m, term_idx, tpc,
    \* the Markdown file on disk: how many characters of full_markdown it
    \* holds, None as long as write_text has not opened it
    md_written

chunkVars == <<lines, chunk_chars, overlap_chars, i, pending, prev_units, chunks,
               warned, cpc>>

settingVars == <<attempts, pause_between_attempts, request_delay, append_summary,
                 args_chunks, adapter, overlap_source, sentence_delimiters, stitch_dedup_window,
                 suppress_edit_comments>>

contextVars == <<context_text, used_source, warnings, submitted>>

loopVars == <<ppc, idx, attempt_i, cleaned, exc, wait_for, in_flight, n_calls>>

resultVars == <<ok_count, fail_count, cleaned_blocks, qc_rows, prev_raw_fragment,
                last_cleaned_fragment, prev_for_dedup>>

outputVars == <<summary, outfile_md, qc_file, exit_code>>

pipeVars == <<settingVars, selected_chunks, contextVars, loopVars, resultVars,
              outputVars>>

callVars == <<fn_args, fn_result>>

termVars == <<known_terms, known_before, keep_map, term_m, term_idx, tpc>>

diskVars == <<md_written>>

vars == <<chunkVars, pipeVars, callVars, termVars, diskVars>>

\* ------------------------------------------------------- inputs of a run
\* what the rewrite call can return: nothing, whitespace only, a text
Responses == {<<>>, <<" ">>, <<"a">>}

MsgPlain == <<Tok("x")>>
MsgRetryIn == <<Tok("x"), Tok("retry"), Tok("in"), Num(17), Tok("s")>>
MsgRetryInWords == <<Tok("retry"), Tok("in"), Num(17), Tok("x")>>
MsgRetryDelay == <<Tok("retry_delay"), Tok("{"), Tok("seconds:"), Num(5), Tok("}")>>
MsgRetryInZero ==
    <<Tok("retry"), Tok("in"), Num(0), Tok("s")>> \o MsgRetryDelay

\* what the rewrite call can raise
Exceptions ==
    {[cls |-> "RateLimit", msg |-> m] :
        m \in {<<>>, MsgPlain, MsgRetryIn, MsgRetryInWords, MsgRetryDelay, MsgRetryInZero}}
    \cup {[cls |-> "Connection", msg |-> m] : m \in {MsgPlain, MsgRetryIn}}
    \cup {[cls |-> c, msg |-> MsgPlain] : c \in {"Auth", "Unknown", "Other"}}

\* raise RuntimeError("Empty response text")
EmptyResponseError == [cls |-> "Other", msg |-> <<Tok("Empty response text")>>]

OptionalInts(lo, hi) == {None} \cup {Some(n) : n \in lo..hi}

\* n different lines of n characters: with chunk_chars = n each line is a fragment
LinesOfFragments(n) == [k \in 1..n |-> [j \in 1..n |-> IF j <= k THEN "a" ELSE "."]]

\* ------------------------------------- chunk_text_line_preserving, stepwise
NoCall ==
    /\ fn_args = None
    /\ fn_result = None

\* no fragment has been handled: "known_terms = {}"
NoTerms ==
    /\ known_terms = <<>>
    /\ known_before = <<>>
    /\ keep_map = <<>>
    /\ term_m = <<>>
    /\ term_idx = 0
    /\ tpc = "off"

\* the settings of the context and of the stitching as config.yaml has them
\* when the input has no overlap
ContextDefaults ==
    /\ overlap_source = "raw"
    /\ sentence_delimiters = {"."}
    /\ stitch_dedup_window = 0
    /\ suppress_edit_comments = TRUE

NoContextYet ==
    /\ context_text = <<>>
    /\ used_source = None
    /\ warnings = {}
    /\ submitted = {}

PipeIdle ==
    /\ ContextDefaults
    /\ NoContextYet
    /\ attempts = 1
    /\ pause_between_attempts = 0
    /\ request_delay = 0
    /\ append_summary = FALSE
    /\ adapter = "openai"
    /\ args_chunks = None
    /\ selected_chunks = None
    /\ ppc = "off"
    /\ idx = 0
    /\ attempt_i = 0
    /\ cleaned = <<>>
    /\ exc = None
    /\ wait_for = 0
    /\ in_flight = {}
    /\ n_calls = 0
    /\ ok_count = 0
    /\ fail_count = 0
    /\ cleaned_blocks = <<>>
    /\ qc_rows = <<>>
    /\ prev_raw_fragment = <<>>
    /\ last_cleaned_fragment = <<>>
    /\ prev_for_dedup = None
    /\ summary = <<>>
    /\ outfile_md = None
    /\ md_written = None
    /\ qc_file = None
    /\ exit_code = None

ChunkInit ==
    /\ lines \in LineLists
    /\ chunk_chars \in 1..MaxChunkChars
    /\ overlap_chars \in 0..MaxOverlapChars
    /\ i = 0
    /\ pending = NoPending
    /\ prev_units = <<>>
    /\ chunks = <<>>
    /\ warned = <<>>
    /\ cpc = "entry"
    /\ PipeIdle
    /\ NoCall
    /\ NoTerms

\* "if not any(ln.strip() for ln in lines): return []"
ChunkEarlyExit ==
    /\ cpc = "entry"
    /\ \A k \in 1..Len(lines) : IsBlank(lines[k])
    /\ cpc' = "done"
    /\ UNCHANGED <<lines, chunk_chars, overlap_chars, i, pending, prev_units, chunks,
                   warned, pipeVars, callVars, termVars, diskVars>>

ChunkEnter ==
    /\ cpc = "entry"
    /\ \E k \in 1..Len(lines) : ~IsBlank(lines[k])
    /\ cpc' = "loop"
    /\ UNCHANGED <<lines, chunk_chars, overlap_chars, i, pending, prev_units, chunks,
                   warned, pipeVars, callVars, termVars, diskVars>>

\* the end of a pass whose attempts ended in `a`
EndPass(a) ==
    /\ i' = a.i
    /\ pending' = a.pending
    /\ warned' = a.notes
    /\ IF a.added_new = 0
       THEN \* "we're stuck": the inner break leaves the outer loop running
            UNCHANGED <<chunks, prev_units>>
       ELSE /\ chunks' = Append(chunks, MakeChunk(a))
            /\ prev_units' = a.units

\* one pass of the outer loop that does not take the termination break
ChunkPass ==
    /\ cpc = "loop"
    /\ ~(i >= Len(lines) /\ pending = NoPending)
    /\ EndPass(ChunkPassResult(lines, chunk_chars, overlap_chars, prev_units, i,
                               pending, warned))
    /\ UNCHANGED <<lines, chunk_chars, overlap_chars, cpc, pipeVars, callVars, termVars, diskVars>>

\* "if i >= len(lines) and (not pending): break", then "return chunks"
ChunkReturn ==
    /\ cpc = "loop"
    /\ i >= Len(lines) /\ pending = NoPending
    /\ cpc' = "done"
    /\ UNCHANGED <<lines, chunk_chars, overlap_chars, i, pending, prev_units, chunks,
                   warned, pipeVars, callVars, termVars, diskVars>>

ChunkNext == ChunkEarlyExit \/ ChunkEnter \/ ChunkPass \/ ChunkReturn

SpecChunk == ChunkInit /\ [][ChunkNext]_vars

\* ------------------------------------------------- main of run_pipeline.py
ChunkerIdle ==
    /\ i = 0
    /\ pending = NoPending
    /\ prev_units = <<>>
    /\ warned = <<>>
    /\ cpc = "off"

\* the state of main when the input has been read and the settings resolved
PipeInit ==
    /\ \/ \E n \in 1..MaxFragments : lines = LinesOfFragments(n) /\ chunk_chars = n
       \/ lines = <<<<" ">>>> /\ chunk_chars = 1
       \/ lines = LinesOfFragments(1) /\ chunk_chars \in {-1, 0}
    /\ overlap_chars = 0
    /\ chunks = <<>>
    /\ ChunkerIdle
    /\ NoCall
    /\ NoTerms
    /\ ContextDefaults
    /\ NoContextYet
    /\ \E c \in OptionalInts(-1, MaxAttempts), a \in OptionalInts(0, MaxAttempts) :
          attempts = ResolveAttempts(c, a)
    /\ pause_between_attempts \in {0, 2}
    /\ request_delay \in {0, 1}
    /\ append_summary \in BOOLEAN
    /\ adapter = "openai"
    /\ args_chunks \in {None} \cup {Some(S) : S \in SUBSET (1..MaxFragments)}
    /\ selected_chunks = None
    /\ ppc = "start"
    /\ idx = 0
    /\ attempt_i = 0
    /\ cleaned = <<>>
    /\ exc = None
    /\ wait_for = 0
    /\ in_flight = {}
    /\ n_calls = 0
    /\ ok_count = 0
    /\ fail_count = 0
    /\ cleaned_blocks = <<>>
    /\ qc_rows = <<>>
    /\ prev_raw_fragment = <<>>
    /\ last_cleaned_fragment = <<>>
    /\ prev_for_dedup = None
    /\ summary = <<>>
    /\ outfile_md = None
    /\ md_written = None
    /\ qc_file = None
    /\ exit_code = None

total_chunks == Len(chunks)

Selected(n) == IF selected_chunks = None THEN TRUE ELSE n \in selected_chunks[1]

\* "Input contains no textual content after preprocessing." sys.exit(1)
MainNoContent ==
    /\ ppc = "start"
    /\ \A k \in 1..Len(lines) : IsBlank(lines[k])
    /\ ppc' = "exited"
    /\ exit_code' = Some(1)
    /\ UNCHANGED <<chunkVars, callVars, termVars, diskVars, contextVars, settingVars, selected_chunks, idx, attempt_i, cleaned,
                   exc, wait_for, in_flight, n_calls, resultVars, summary,
                   outfile_md, qc_file>>

\* "while start < n: end = min(n, start + limit); ...; start = end" of the
\* character split comes to an end only when start grows
HardSplitEnds(limit) == limit >= 1

\* chunk_text_line_preserving is called with cfg["txt_chunk_chars"] as it is
MainEnterChunker ==
    /\ ppc = "start"
    /\ \E k \in 1..Len(lines) : ~IsBlank(lines[k])
    /\ ppc' = "chunking"
    /\ UNCHANGED <<chunkVars, callVars, termVars, diskVars, contextVars, settingVars, selected_chunks, idx, attempt_i, cleaned,
                   exc, wait_for, in_flight, n_calls, resultVars, outputVars>>

\* the chunker returns, then the optional chunk selection, up to the fragment
\* loop; with chunk_chars <= 0 the first line that is not blank reaches the
\* character split, which does not return
MainPrepare ==
    /\ ppc = "chunking"
    /\ HardSplitEnds(chunk_chars)
    /\ chunks' = chunk_text_line_preserving(lines, chunk_chars, overlap_chars)
    /\ selected_chunks' =
          IF args_chunks = None THEN None
          ELSE Some(_parse_chunks_spec(args_chunks[1], Len(chunks')))
    /\ idx' = 1
    /\ ppc' = "loop"
    /\ UNCHANGED <<lines, chunk_chars, overlap_chars, i, pending, prev_units, warned,
                   cpc, callVars, termVars, diskVars, contextVars, settingVars, attempt_i, cleaned, exc, wait_for, in_flight,
                   n_calls, resultVars, outputVars>>

\* "if selected_chunks is not None and idx not in selected_chunks: continue"
LoopSkip ==
    /\ ppc = "loop"
    /\ idx <= total_chunks
    /\ ~Selected(idx)
    /\ prev_raw_fragment' = FragmentText(chunks[idx])
    /\ idx' = idx + 1
    /\ UNCHANGED <<chunkVars, callVars, termVars, diskVars, contextVars, settingVars, selected_chunks, ppc, attempt_i, cleaned,
                   exc, wait_for, in_flight, n_calls, ok_count, fail_count,
                   cleaned_blocks, qc_rows, last_cleaned_fragment, prev_for_dedup,
                   outputVars>>

\* the fallback for an empty rewritten text alone
FallbackOnlyEmpty(n) ==
    IF /\ overlap_source = "cleaned"
       /\ IsBlank(last_cleaned_fragment)
       /\ IsBlank(strip_all_html_comments(last_cleaned_fragment))
    THEN 2
    ELSE 0

\* "used_source = overlap_source" and the two fallbacks to raw: 0 is none of
\* them, 1 the previous chunk was skipped, 2 the rewritten text is empty
Fallback(n) ==
    IF overlap_source = "cleaned" /\ ~Selected(n - 1) THEN 1
    ELSE IF /\ overlap_source = "cleaned"
            /\ IsBlank(last_cleaned_fragment)
            /\ IsBlank(strip_all_html_comments(last_cleaned_fragment))
    THEN 2
    ELSE 0

\* a selected fragment: the context from the previous fragment, cleaned = "",
\* attempt_i = 1
LoopBegin ==
    /\ ppc = "loop"
    /\ idx <= total_chunks
    /\ Selected(idx)
    /\ IF idx = 1
       THEN /\ context_text' = <<>>
            /\ used_source' = Some(overlap_source)
            /\ UNCHANGED warnings
       ELSE /\ used_source' = Some(IF Fallback(idx) = 0 THEN overlap_source ELSE "raw")
            /\ warnings' = IF Fallback(idx) = 0 THEN warnings
                           ELSE warnings \cup {[chunk |-> idx, fallback |-> Fallback(idx)]}
            /\ context_text' = build_context_overlap(
                                   prev_raw_fragment, last_cleaned_fragment,
                                   IF Fallback(idx) = 0 THEN overlap_source ELSE "raw",
                                   overlap_chars, sentence_delimiters)
    /\ cleaned' = <<>>
    /\ attempt_i' = 1
    /\ n_calls' = 0
    /\ ppc' = "attempt"
    /\ UNCHANGED <<chunkVars, callVars, termVars, diskVars, submitted, settingVars, selected_chunks, idx, exc,
                   wait_for, in_flight, resultVars, outputVars>>

\* the for loop is over: on to the summary, or straight to the output files
LoopEnd ==
    /\ ppc = "loop"
    /\ idx > total_chunks
    /\ IF append_summary
       THEN /\ ppc' = "summary"
            /\ attempt_i' = 1
            /\ n_calls' = 0
       ELSE /\ ppc' = "write_md"
            /\ UNCHANGED <<attempt_i, n_calls>>
    /\ UNCHANGED <<chunkVars, callVars, termVars, diskVars, contextVars, settingVars, selected_chunks, idx, cleaned, exc,
                   wait_for, in_flight, resultVars, outputVars>>

\* "while attempt_i <= attempts" is false on entry
AttemptsExhausted ==
    /\ ppc = "attempt"
    /\ ~AttemptsRemain(attempt_i, attempts)
    /\ ppc' = "finish"
    /\ UNCHANGED <<chunkVars, callVars, termVars, diskVars, contextVars, settingVars, selected_chunks, idx, attempt_i, cleaned,
                   exc, wait_for, in_flight, n_calls, resultVars, outputVars>>

DelayDue == attempt_i = 1 /\ request_delay > 0 /\ idx > 1

\* time.sleep(request_delay) before the first attempt
RequestDelay ==
    /\ ppc = "attempt"
    /\ AttemptsRemain(attempt_i, attempts)
    /\ DelayDue
    /\ ppc' = "delay"
    /\ wait_for' = request_delay
    /\ UNCHANGED <<chunkVars, callVars, termVars, diskVars, contextVars, settingVars, selected_chunks, idx, attempt_i, cleaned,
                   exc, in_flight, n_calls, resultVars, outputVars>>

\* call_llm(...) is entered: the request is outstanding until it returns or raises
CallLLM ==
    /\ \/ ppc = "attempt" /\ AttemptsRemain(attempt_i, attempts) /\ ~DelayDue
       \/ ppc = "delay"
    /\ ppc' = "calling"
    /\ wait_for' = 0
    /\ in_flight' = in_flight \cup {idx}
    /\ n_calls' = n_calls + 1
    /\ submitted' = submitted \cup {[chunk |-> idx, chunk_text |-> FragmentText(chunks[idx]),
                                     context_text |-> context_text]}
    /\ UNCHANGED <<chunkVars, callVars, termVars, diskVars, context_text, used_source, warnings, settingVars,
                   selected_chunks, idx, attempt_i, cleaned, exc, resultVars, outputVars>>

\* the except block of the attempt loop for exception e, `text` being the
\* value of cleaned when e is raised; exc keeps e until the fragment is finished
HandleException(e, text) ==
    /\ exc' = Some(e)
    /\ IF ~Retriable(e.cls) \/ IsLast(attempt_i, attempts)
       THEN /\ cleaned' = <<>>
            /\ ppc' = "finish"
            /\ UNCHANGED wait_for
       ELSE /\ cleaned' = text
            /\ wait_for' = WaitFor(e, pause_between_attempts)
            /\ ppc' = "retry_wait"

\* call_llm returns `text`, one of `texts`
LLMReturnsOneOf(texts) ==
    /\ ppc = "calling"
    /\ \E text \in texts :
          IF IsEmptyResponse(text)
          THEN HandleException(EmptyResponseError, text)
          ELSE /\ cleaned' = text
               /\ ppc' = "finish"
               /\ UNCHANGED <<exc, wait_for>>
    /\ in_flight' = in_flight \ {idx}
    /\ UNCHANGED <<chunkVars, callVars, termVars, diskVars, contextVars, settingVars, selected_chunks, idx, attempt_i, n_calls,
                   resultVars, outputVars>>

LLMReturns == LLMReturnsOneOf(Responses)

\* call_llm raises e, one of `errors`
LLMRaisesOneOf(errors) ==
    /\ ppc = "calling"
    /\ \E e \in errors : HandleException(e, cleaned)
    /\ in_flight' = in_flight \ {idx}
    /\ UNCHANGED <<chunkVars, callVars, termVars, diskVars, contextVars, settingVars, selected_chunks, idx, attempt_i, n_calls,
                   resultVars, outputVars>>

LLMRaises == LLMRaisesOneOf(Exceptions)

\* "if wait_for and wait_for > 0: time.sleep(wait_for)" is over: attempt_i += 1
RetryWake ==
    /\ ppc = "retry_wait"
    /\ attempt_i' = attempt_i + 1
    /\ exc' = None
    /\ wait_for' = 0
    /\ ppc' = "attempt"
    /\ UNCHANGED <<chunkVars, callVars, termVars, diskVars, contextVars, settingVars, selected_chunks, idx, cleaned, in_flight,
                   n_calls, resultVars, outputVars>>

FinishSkipsFailed ==
    /\ ppc = "finish"
    /\ LET status == StatusOf(cleaned)
           t == Tally(ok_count, fail_count, status)
       IN  /\ ok_count' = t[1]
           /\ fail_count' = t[2]
           /\ IF status = "OK"
              THEN /\ cleaned_blocks' = Append(cleaned_blocks, [part |-> idx, text |-> cleaned])
                   /\ qc_rows' = Append(qc_rows, [chunk_id |-> idx,
                                     orig_len |-> Len(FragmentText(chunks[idx])),
                                     cleaned_len |-> Len(cleaned)])
                   /\ last_cleaned_fragment' = cleaned
                   /\ prev_for_dedup' = Some(cleaned)
              ELSE UNCHANGED <<cleaned_blocks, qc_rows, last_cleaned_fragment,
                               prev_for_dedup>>
    /\ prev_raw_fragment' = FragmentText(chunks[idx])
    /\ idx' = idx + 1
    /\ exc' = None
    /\ ppc' = "loop"
    /\ UNCHANGED <<chunkVars, callVars, termVars, diskVars, contextVars, settingVars, selected_chunks, attempt_i, cleaned,
                   wait_for, in_flight, n_calls, outputVars>>

LastCleanedAlways(status, text, last) == text

\* "if status == 'OK': last_cleaned_fragment = cleaned"
LastCleanedAfter(status, text, last) == IF status = "OK" THEN text ELSE last

\* after the attempt loop: tally (on the text as the attempt loop left it),
\* the merged terms of the text (annotation rewritten, glossary updated),
\* deduplication and comment stripping, wrapped block, QC row, previous
\* fragments
FinishFragment ==
    /\ ppc = "finish"
    /\ \E g \in GlossaryOutcomes(cleaned, known_terms) :
          /\ cleaned' = FinalText(g.cleaned, prev_for_dedup, stitch_dedup_window,
                                  suppress_edit_comments)
          /\ known_terms' = g.known_terms
          /\ keep_map' = g.keep_map
    /\ known_before' = known_terms
    /\ LET status == StatusOf(cleaned)
           t == Tally(ok_count, fail_count, status)
       IN  /\ ok_count' = t[1]
           /\ fail_count' = t[2]
           /\ last_cleaned_fragment' =
                 LastCleanedAfter(status, cleaned', last_cleaned_fragment)
    /\ cleaned_blocks' = Append(cleaned_blocks, [part |-> idx, text |-> cleaned'])
    /\ prev_for_dedup' = Some(cleaned')
    /\ qc_rows' = Append(qc_rows, [chunk_id |-> idx,
                                   orig_len |-> Len(FragmentText(chunks[idx])),
                                   cleaned_len |-> Len(cleaned')])
    /\ prev_raw_fragment' = FragmentText(chunks[idx])
    /\ idx' = idx + 1
    /\ exc' = None
    /\ ppc' = "loop"
    /\ UNCHANGED <<chunkVars, callVars, diskVars, contextVars, settingVars, selected_chunks,
                   attempt_i, wait_for, in_flight, n_calls, outputVars,
                   term_m, term_idx, tpc>>

\* ------------------------------------------------------ summary request
SummaryRetriesAll(cls) == TRUE

\* the summary loop retries LLMRateLimitError and LLMConnectionError only
SummaryRetriable(cls) == cls \in {"RateLimit", "Connection"}

SummaryAttemptsExhausted ==
    /\ ppc = "summary"
    /\ ~AttemptsRemain(attempt_i, attempts)
    /\ ppc' = "write_md"
    /\ UNCHANGED <<chunkVars, callVars, termVars, diskVars, contextVars, settingVars, selected_chunks, idx, attempt_i, cleaned,
                   exc, wait_for, in_flight, n_calls, resultVars, outputVars>>

SummaryDelayDue == attempt_i = 1 /\ request_delay > 0

SummaryDelay ==
    /\ ppc = "summary"
    /\ AttemptsRemain(attempt_i, attempts)
    /\ SummaryDelayDue
    /\ ppc' = "summary_delay"
    /\ wait_for' = request_delay
    /\ UNCHANGED <<chunkVars, callVars, termVars, diskVars, contextVars, settingVars, selected_chunks, idx, attempt_i, cleaned,
                   exc, in_flight, n_calls, resultVars, outputVars>>

SummaryCall ==
    /\ \/ ppc = "summary" /\ AttemptsRemain(attempt_i, attempts) /\ ~SummaryDelayDue
       \/ ppc = "summary_delay"
    /\ ppc' = "summary_calling"
    /\ wait_for' = 0
    /\ in_flight' = in_flight \cup {0}
    /\ n_calls' = n_calls + 1
    /\ UNCHANGED <<chunkVars, callVars, termVars, diskVars, contextVars, settingVars, selected_chunks, idx, attempt_i, cleaned,
                   exc, resultVars, outputVars>>

\* call_llm_summary returns `text`; an empty one raises RuntimeError, which the
\* handler's last branch turns into "no summary"
SummaryReturns ==
    /\ ppc = "summary_calling"
    /\ \E text \in Responses :
          summary' = IF IsEmptyResponse(text) THEN <<>> ELSE text
    /\ ppc' = "write_md"
    /\ in_flight' = in_flight \ {0}
    /\ UNCHANGED <<chunkVars, callVars, termVars, diskVars, contextVars, settingVars, selected_chunks, idx, attempt_i, cleaned,
                   exc, wait_for, n_calls, resultVars, outfile_md, qc_file, exit_code>>

SummaryRaises ==
    /\ ppc = "summary_calling"
    /\ \E e \in Exceptions :
          IF SummaryRetriable(e.cls) /\ ~IsLast(attempt_i, attempts)
          THEN /\ exc' = Some(e)
               /\ wait_for' = WaitFor(e, pause_between_attempts)
               /\ ppc' = "summary_wait"
               /\ UNCHANGED summary
          ELSE /\ summary' = <<>>
               /\ ppc' = "write_md"
               /\ UNCHANGED <<exc, wait_for>>
    /\ in_flight' = in_flight \ {0}
    /\ UNCHANGED <<chunkVars, callVars, termVars, diskVars, contextVars, settingVars, selected_chunks, idx, attempt_i, cleaned,
                   n_calls, resultVars, outfile_md, qc_file, exit_code>>

SummaryWake ==
    /\ ppc = "summary_wait"
    /\ attempt_i' = attempt_i + 1
    /\ exc' = None
    /\ wait_for' = 0
    /\ ppc' = "summary"
    /\ UNCHANGED <<chunkVars, callVars, termVars, diskVars, contextVars, settingVars, selected_chunks, idx, cleaned, in_flight,
                   n_calls, resultVars, outputVars>>

\* ---------------------------------------------------------- output files
\* the wrapper comments of a block and the heading of the summary, each as one
\* character
StartComment == "<!-- STARTING: -->"
EndComment == "<!-- END: -->"
SummaryHeading == "## summary"

\* wrapped = f"{start_comment}\n{cleaned}\n{end_comment}"
Wrapped(text) == <<StartComment, NL>> \o text \o <<NL, EndComment>>

\* str.rstrip()
RECURSIVE RStrip(_)
RStrip(s) == IF s # <<>> /\ IsSpace(s[Len(s)]) THEN RStrip(SubSeq(s, 1, Len(s) - 1)) ELSE s

\* full_markdown: the blocks joined by blank lines, then the heading and the
\* summary when the summary is not blank
FullMarkdown(blocks, summary_text) ==
    LET body == Join([k \in 1..Len(blocks) |-> Wrapped(blocks[k].text)], <<NL, NL>>)
    IN  IF IsBlank(summary_text) THEN body
        ELSE RStrip(body) \o <<NL, NL, SummaryHeading, NL, NL>> \o summary_text \o <<NL>>

\* outfile_md.write_text(full_markdown), from the call to its return: the
\* blocks in order, then the summary when it is not blank
WriteMarkdown ==
    /\ ppc = "write_md"
    /\ outfile_md' = Some([blocks |-> cleaned_blocks,
                           summary |-> IF IsBlank(summary) THEN None ELSE Some(summary)])
    /\ md_written' = Some(Len(FullMarkdown(cleaned_blocks, summary)))
    /\ ppc' = "write_qc"
    /\ UNCHANGED <<chunkVars, callVars, termVars, contextVars, settingVars, selected_chunks, idx, attempt_i, cleaned,
                   exc, wait_for, in_flight, n_calls, resultVars, summary, qc_file,
                   exit_code>>

\* the QC report, the closing log lines, and the return from main: status 0
WriteQCAndReturn ==
    /\ ppc = "write_qc"
    /\ qc_file' = Some(qc_rows)
    /\ exit_code' = Some(0)
    /\ ppc' = "exited"
    /\ UNCHANGED <<chunkVars, callVars, termVars, diskVars, contextVars, settingVars, selected_chunks, idx, attempt_i, cleaned,
                   exc, wait_for, in_flight, n_calls, resultVars, summary, outfile_md>>

PipeNext ==
    \/ MainNoContent
    \/ MainEnterChunker
    \/ MainPrepare
    \/ LoopSkip
    \/ LoopBegin
    \/ LoopEnd
    \/ AttemptsExhausted
    \/ RequestDelay
    \/ CallLLM
    \/ LLMReturns
    \/ LLMRaises
    \/ RetryWake
    \/ FinishFragment
    \/ SummaryAttemptsExhausted
    \/ SummaryDelay
    \/ SummaryCall
    \/ SummaryReturns
    \/ SummaryRaises
    \/ SummaryWake
    \/ WriteMarkdown
    \/ WriteQCAndReturn

SpecPipe == PipeInit /\ [][PipeNext]_vars

\* ------------------------------------ main, runs with a context overlap
\* n one-character lines: with chunk_chars = 3 and overlap_chars = 1 every
\* chunk after the first starts with the last line of the chunk before it
AlternatingLines(n) == [k \in 1..n |-> IF k % 2 = 1 THEN <<"a">> ELSE <<".">>]

\* what the rewrite call can return here: nothing, a text, a text that is one
\* comment and nothing else
ContextResponses == {<<>>, <<"a">>, <<CommentOpen, "a", CommentClose>>}

\* what it can raise here: an error that is not retried
ContextExceptions == {[cls |-> "Auth", msg |-> MsgPlain]}

\* the state of main when the input has been read and the settings resolved:
\* txt_overlap_chars is positive, retry.attempts is -1 or is not set
ContextInit ==
    /\ \/ /\ lines = LinesOfFragments(MaxFragments)
          /\ chunk_chars = MaxFragments
          /\ overlap_chars \in 1..MaxOverlapChars
       \/ /\ lines = AlternatingLines(MaxFragments)
          /\ chunk_chars = 3
          /\ overlap_chars = 1
    /\ chunks = <<>>
    /\ ChunkerIdle
    /\ NoCall
    /\ NoTerms
    /\ NoContextYet
    /\ overlap_source \in OverlapSources
    /\ sentence_delimiters = {"."}
    /\ stitch_dedup_window \in {0, overlap_chars}
    /\ suppress_edit_comments \in BOOLEAN
    /\ attempts \in {ResolveAttempts(Some(-1), None), ResolveAttempts(None, None)}
    /\ pause_between_attempts = 0
    /\ request_delay = 0
    /\ append_summary = FALSE
    /\ adapter = "openai"
    /\ args_chunks \in {None, Some({1, MaxFragments})}
    /\ selected_chunks = None
    /\ ppc = "start"
    /\ idx = 0
    /\ attempt_i = 0
    /\ cleaned = <<>>
    /\ exc = None
    /\ wait_for = 0
    /\ in_flight = {}
    /\ n_calls = 0
    /\ ok_count = 0
    /\ fail_count = 0
    /\ cleaned_blocks = <<>>
    /\ qc_rows = <<>>
    /\ prev_raw_fragment = <<>>
    /\ last_cleaned_fragment = <<>>
    /\ prev_for_dedup = None
    /\ summary = <<>>
    /\ outfile_md = None
    /\ md_written = None
    /\ qc_file = None
    /\ exit_code = None

ContextLLMReturns == LLMReturnsOneOf(ContextResponses)

ContextLLMRaises == LLMRaisesOneOf(ContextExceptions)

ContextNext ==
    \/ MainEnterChunker
    \/ MainPrepare
    \/ LoopSkip
    \/ LoopBegin
    \/ LoopEnd
    \/ AttemptsExhausted
    \/ CallLLM
    \/ ContextLLMReturns
    \/ ContextLLMRaises
    \/ FinishFragment
    \/ WriteMarkdown
    \/ WriteQCAndReturn

SpecContext == ContextInit /\ [][ContextNext]_vars

\* ------------------------------------------- main, a run that can be aborted
\* a run with one attempt per request and no pauses, on one to MaxFragments
\* fragments
AbortInit ==
    /\ PipeInit
    /\ \E n \in 1..MaxFragments : lines = LinesOfFragments(n) /\ chunk_chars = n
    /\ attempts = 1
    /\ pause_between_attempts = 0
    /\ request_delay = 0
    /\ args_chunks = None

\* the process ends where it is: an uncaught exception, a signal, a power cut
Abort ==
    /\ ppc \notin {"exited", "aborted"}
    /\ ppc' = "aborted"
    /\ UNCHANGED <<chunkVars, callVars, termVars, diskVars, contextVars, settingVars, selected_chunks,
                   idx, attempt_i, cleaned, exc, wait_for, in_flight, n_calls, resultVars,
                   outputVars>>

\* write_text opens the file for writing: it exists and is empty
OpenMarkdown ==
    /\ ppc = "write_md"
    /\ md_written' = Some(0)
    /\ ppc' = "writing_md"
    /\ UNCHANGED <<chunkVars, callVars, termVars, contextVars, settingVars, selected_chunks,
                   idx, attempt_i, cleaned, exc, wait_for, in_flight, n_calls, resultVars,
                   outputVars>>

\* f.write(data): the file takes some more of the characters
WriteMarkdownSome ==
    /\ ppc = "writing_md"
    /\ \E n \in (md_written[1] + 1)..Len(FullMarkdown(cleaned_blocks, summary)) :
          md_written' = Some(n)
    /\ UNCHANGED <<chunkVars, callVars, termVars, contextVars, settingVars, selected_chunks,
                   ppc, idx, attempt_i, cleaned, exc, wait_for, in_flight, n_calls,
                   resultVars, outputVars>>

\* every character is in the file: write_text returns
WriteMarkdownDone ==
    /\ ppc = "writing_md"
    /\ md_written[1] = Len(FullMarkdown(cleaned_blocks, summary))
    /\ outfile_md' = Some([blocks |-> cleaned_blocks,
                           summary |-> IF IsBlank(summary) THEN None ELSE Some(summary)])
    /\ ppc' = "write_qc"
    /\ UNCHANGED <<chunkVars, callVars, termVars, diskVars, contextVars, settingVars, selected_chunks,
                   idx, attempt_i, cleaned, exc, wait_for, in_flight, n_calls, resultVars,
                   summary, qc_file, exit_code>>

AbortNext ==
    \/ MainEnterChunker
    \/ MainPrepare
    \/ LoopBegin
    \/ LoopEnd
    \/ CallLLM
    \/ LLMReturns
    \/ LLMRaises
    \/ FinishFragment
    \/ SummaryCall
    \/ SummaryReturns
    \/ SummaryRaises
    \/ OpenMarkdown
    \/ WriteMarkdownSome
    \/ WriteMarkdownDone
    \/ WriteQCAndReturn
    \/ Abort

SpecAbort == AbortInit /\ [][AbortNext]_vars

\* ------------------------------- main, runs with merged terms and a selection
\* what the rewrite call can return here: nothing, a text, and texts that end
\* with a merged_terms comment
GlossaryResponses ==
    {<<>>, <<"a">>, <<"a", MergedTermsNote(1, 2)>>, <<"a", MergedTermsNote(3, 1)>>}

\* the state of main when the input has been read and the settings resolved:
\* MaxFragments fragments, one attempt per fragment, any --chunks selection
GlossaryInit ==
    /\ lines = LinesOfFragments(MaxFragments)
    /\ chunk_chars = MaxFragments
    /\ overlap_chars = 1
    /\ chunks = <<>>
    /\ ChunkerIdle
    /\ NoCall
    /\ NoTerms
    /\ NoContextYet
    /\ overlap_source \in {"raw", "cleaned"}
    /\ sentence_delimiters = {"."}
    /\ stitch_dedup_window = 0
    /\ suppress_edit_comments \in BOOLEAN
    /\ attempts = ResolveAttempts(None, None)
    /\ pause_between_attempts = 0
    /\ request_delay = 0
    /\ append_summary = FALSE
    /\ adapter = "openai"
    /\ args_chunks \in {None} \cup {Some(S) : S \in SUBSET (1..MaxFragments)}
    /\ selected_chunks = None
    /\ ppc = "start"
    /\ idx = 0
    /\ attempt_i = 0
    /\ cleaned = <<>>
    /\ exc = None
    /\ wait_for = 0
    /\ in_flight = {}
    /\ n_calls = 0
    /\ ok_count = 0
    /\ fail_count = 0
    /\ cleaned_blocks = <<>>
    /\ qc_rows = <<>>
    /\ prev_raw_fragment = <<>>
    /\ last_cleaned_fragment = <<>>
    /\ prev_for_dedup = None
    /\ summary = <<>>
    /\ outfile_md = None
    /\ md_written = None
    /\ qc_file = None
    /\ exit_code = None

GlossaryLLMReturns == LLMReturnsOneOf(GlossaryResponses)

GlossaryNext ==
    \/ MainEnterChunker
    \/ MainPrepare
    \/ LoopSkip
    \/ LoopBegin
    \/ LoopEnd
    \/ CallLLM
    \/ GlossaryLLMReturns
    \/ ContextLLMRaises
    \/ FinishFragment
    \/ WriteMarkdown
    \/ WriteQCAndReturn

SpecGlossary == GlossaryInit /\ [][GlossaryNext]_vars

\* ---------------------------------- main, runs with the errors of a provider
\* the words of a provider's error text
ErrorWords ==
    {"429", "insufficient_quota", "billing", "timeout", "resourceexhausted", "retry_after",
     "payment", "x"}

MaxErrorWords == 2

\* what the provider call can raise: an exception whose text holds up to
\* MaxErrorWords of the words, and one that names a rate limit in two words
ProviderErrors ==
    UNION {[1..n -> {Tok(w) : w \in ErrorWords}] : n \in 0..MaxErrorWords}
        \cup {<<Tok("rate"), Tok("limit"), Tok("billing")>>}

\* the state of main when the input has been read and the settings resolved:
\* the OpenAI or the Gemini adapter, one fragment, up to two attempts
AdapterInit ==
    /\ lines = LinesOfFragments(1)
    /\ chunk_chars = 1
    /\ overlap_chars = 0
    /\ chunks = <<>>
    /\ ChunkerIdle
    /\ NoCall
    /\ NoTerms
    /\ ContextDefaults
    /\ NoContextYet
    /\ \E a \in 1..2 : attempts = ResolveAttempts(None, Some(a))
    /\ pause_between_attempts = 0
    /\ request_delay = 0
    /\ append_summary = FALSE
    /\ adapter \in {"openai", "gemini"}
    /\ args_chunks = None
    /\ selected_chunks = None
    /\ ppc = "start"
    /\ idx = 0
    /\ attempt_i = 0
    /\ cleaned = <<>>
    /\ exc = None
    /\ wait_for = 0
    /\ in_flight = {}
    /\ n_calls = 0
    /\ ok_count = 0
    /\ fail_count = 0
    /\ cleaned_blocks = <<>>
    /\ qc_rows = <<>>
    /\ prev_raw_fragment = <<>>
    /\ last_cleaned_fragment = <<>>
    /\ prev_for_dedup = None
    /\ summary = <<>>
    /\ outfile_md = None
    /\ md_written = None
    /\ qc_file = None
    /\ exit_code = None

\* adapter.generate raises: the provider call has raised an exception, and the
\* except block re-raises it as an LLMError
AdapterRaises == LLMRaisesOneOf({generate_raises(adapter, msg) : msg \in ProviderErrors})

AdapterNext ==
    \/ MainEnterChunker
    \/ MainPrepare
    \/ LoopBegin
    \/ LoopEnd
    \/ CallLLM
    \/ ContextLLMReturns
    \/ AdapterRaises
    \/ RetryWake
    \/ FinishFragment
    \/ WriteMarkdown
    \/ WriteQCAndReturn

SpecAdapter == AdapterInit /\ [][AdapterNext]_vars

\* ------------------------------------- functions of utils.py, called alone
\* neither main nor the chunker runs
NothingRuns ==
    /\ lines = <<>>
    /\ chunk_chars = 1
    /\ overlap_chars = 0
    /\ chunks = <<>>
    /\ ChunkerIdle
    /\ PipeIdle

MaxTextLen == 4
MaxContextChars == 3

\* the characters of a previous text: those of the input, the line break, and
\* the two comment marks
TextChars == Chars \cup {NL, CommentOpen, CommentClose}

TextsUpTo(n) == UNION {[1..k -> TextChars] : k \in 0..n}

\* sentence_delimiters: the characters after which a sentence may end
DelimiterSets == {{"."}, {".", "a"}}

\* build_context_overlap is about to be called; the text under study is the
\* raw previous text or the rewritten one
OverlapInit ==
    /\ NothingRuns
    /\ NoTerms
    /\ fn_result = None
    /\ \E t \in TextsUpTo(MaxTextLen), as_raw \in BOOLEAN, src \in OverlapSources,
          m \in -1..MaxContextChars, d \in DelimiterSets :
          fn_args = Some([prev_raw_text |-> IF as_raw THEN t ELSE <<"a">>,
                          prev_cleaned_text |-> IF as_raw THEN <<>> ELSE t,
                          source |-> src,
                          max_chars |-> m,
                          sentence_delimiters |-> d])

CallBuildContextOverlap ==
    /\ fn_args # None /\ fn_result = None
    /\ fn_result' = Some(build_context_overlap(fn_args[1].prev_raw_text,
                                               fn_args[1].prev_cleaned_text,
                                               fn_args[1].source,
                                               fn_args[1].max_chars,
                                               fn_args[1].sentence_delimiters))
    /\ UNCHANGED <<chunkVars, pipeVars, termVars, diskVars, fn_args>>

SpecOverlap == OverlapInit /\ [][CallBuildContextOverlap]_vars

MaxTailLines == 2
MaxTailLineLen == 3

\* previous texts of whole lines: up to MaxTailLines lines of up to
\* MaxTailLineLen characters each, joined by line breaks
TailTexts ==
    {Join(ls, <<NL>>) : ls \in UNION {[1..k -> StringsUpTo(MaxTailLineLen)] :
                                          k \in 1..MaxTailLines}}

\* build_context_overlap is about to be called on the raw previous text, with
\* a budget that the text may or may not fit
TailInit ==
    /\ NothingRuns
    /\ NoTerms
    /\ fn_result = None
    /\ \E t \in TailTexts, m \in 1..(MaxContextChars + 1), d \in DelimiterSets :
          fn_args = Some([prev_raw_text |-> t,
                          prev_cleaned_text |-> <<>>,
                          source |-> "raw",
                          max_chars |-> m,
                          sentence_delimiters |-> d])

SpecTail == TailInit /\ [][CallBuildContextOverlap]_vars

MaxDedupLines == 3
MaxWindowChars == 5

\* the lines of the two texts: three lines, a line that differs from the first
\* in whitespace only, and the empty line
DedupLineSet == {<<"a">>, <<"b">>, <<"c">>, <<" ", "a">>, <<>>}

DedupTexts == {Join(ls, <<NL>>) : ls \in UNION {[1..k -> DedupLineSet] : k \in 0..MaxDedupLines}}

\* dedup_overlapping_boundary is about to be called
DedupInit ==
    /\ NothingRuns
    /\ NoTerms
    /\ fn_result = None
    /\ \E p \in DedupTexts, c \in DedupTexts, w \in -1..MaxWindowChars :
          fn_args = Some([prev_text |-> p, cur_text |-> c, window_chars |-> w])

CallDedup ==
    /\ fn_args # None /\ fn_result = None
    /\ fn_result' = Some(dedup_overlapping_boundary(fn_args[1].prev_text,
                                                    fn_args[1].cur_text,
                                                    fn_args[1].window_chars))
    /\ UNCHANGED <<chunkVars, pipeVars, termVars, diskVars, fn_args>>

SpecDedup == DedupInit /\ [][CallDedup]_vars

\* the keys of a dict of n entries, in every order
KeyOrders(n) == {ks \in [1..n -> Terms] : \A p, q \in 1..n : p # q => ks[p] # ks[q]}

\* coalesce_term_map(term_map) is about to be called, and then called again on
\* what it returns; term_map is any dict over the terms
CoalesceInit ==
    /\ NothingRuns
    /\ NoTerms
    /\ fn_result = None
    /\ \E n \in 0..MaxTerms :
          \E ks \in KeyOrders(n), v \in [1..n -> SUBSET Terms] :
              fn_args = Some([term_map |-> [p \in 1..n |-> [key |-> ks[p], vs |-> v[p]]]])

\* the working copy m of the call under way, and what the calls returned
Returned(r, m) ==
    IF r.call = 1
    THEN [call |-> 2, m |-> m, first |-> Some(m), second |-> None]
    ELSE [call |-> 3, m |-> m, first |-> r.first, second |-> Some(m)]

\* the first call is entered: "if not term_map: return {}", else the copy
CoalesceEnter ==
    /\ fn_args # None /\ fn_result = None
    /\ fn_result' =
          LET r == [call |-> 1, m |-> fn_args[1].term_map, first |-> None, second |-> None]
          IN  Some(IF fn_args[1].term_map = <<>> THEN Returned(r, <<>>) ELSE r)
    /\ UNCHANGED <<chunkVars, pipeVars, termVars, diskVars, fn_args>>

\* a run of the while loop that merges two entries
CoalesceMerge ==
    /\ fn_result # None
    /\ fn_result[1].call \in {1, 2}
    /\ \E n \in ScanFrom(fn_result[1].m, 1) :
          fn_result' = Some(IF LoopAgain(TRUE)
                            THEN [fn_result[1] EXCEPT !.m = n]
                            ELSE Returned(fn_result[1], n))
    /\ UNCHANGED <<chunkVars, pipeVars, termVars, diskVars, fn_args>>

\* a run of the while loop that changes nothing: "return m"
CoalesceReturn ==
    /\ fn_result # None
    /\ fn_result[1].call \in {1, 2}
    /\ ScanFrom(fn_result[1].m, 1) = {}
    /\ fn_result' = Some(Returned(fn_result[1], fn_result[1].m))
    /\ UNCHANGED <<chunkVars, pipeVars, termVars, diskVars, fn_args>>

CoalesceNext == CoalesceEnter \/ CoalesceMerge \/ CoalesceReturn

SpecCoalesce == CoalesceInit /\ [][CoalesceNext]_vars

\* a line of n letters, with no sentence or word boundary
Letters(n) == [k \in 1..n |-> "a"]

\* lines of at most 50 characters: empty, blank, and of 1, 16, 17 and 50 letters
ShortLines == {<<>>, <<" ">>, Letters(1), Letters(16), Letters(17), Letters(50)}

\* chunk_text_line_preserving(lines, 50, 10) is about to be called on three
\* short lines
ShortLinesInit ==
    /\ lines \in [1..3 -> ShortLines]
    /\ chunk_chars = 50
    /\ overlap_chars = 10
    /\ i = 0
    /\ pending = NoPending
    /\ prev_units = <<>>
    /\ chunks = <<>>
    /\ warned = <<>>
    /\ cpc = "entry"
    /\ PipeIdle
    /\ NoCall
    /\ NoTerms

SpecShortLines == ShortLinesInit /\ [][ChunkNext]_vars

MaxManyLines == 4
MaxManyChunkChars == 4

\* lines with no sentence or word boundary: empty, of one and of two letters
LetterLines == {<<>>, Letters(1), Letters(2)}

\* chunk_text_line_preserving is about to be called on up to MaxManyLines
\* lines, empty lines among them
ManyLinesInit ==
    /\ lines \in UNION {[1..n -> LetterLines] : n \in 0..MaxManyLines}
    /\ chunk_chars \in 1..MaxManyChunkChars
    /\ overlap_chars \in 0..MaxOverlapChars
    /\ i = 0
    /\ pending = NoPending
    /\ prev_units = <<>>
    /\ chunks = <<>>
    /\ warned = <<>>
    /\ cpc = "entry"
    /\ PipeIdle
    /\ NoCall
    /\ NoTerms

SpecManyLines == ManyLinesInit /\ [][ChunkNext]_vars

MaxSplitLen == 6
MaxSplitLimit == 3

\* split_line_for_limit(line, limit) or _split_by_words_with_char_fallback(line,
\* limit) is about to be called, for any line and any limit >= 1, and for a
\* line of 50 letters with limit 5
SplitInit ==
    /\ NothingRuns
    /\ NoTerms
    /\ fn_result = None
    /\ \/ \E line \in UNION {[1..n -> Chars] : n \in 0..MaxSplitLen} :
             \E limit \in 1..MaxSplitLimit :
                 fn_args = Some([line |-> line, limit |-> limit])
       \/ fn_args = Some([line |-> Letters(50), limit |-> 5])

CallSplitLineForLimit ==
    /\ fn_args # None /\ fn_result = None
    /\ fn_result' =
          LET r == split_line_for_limit(fn_args[1].line, fn_args[1].limit)
          IN  Some([fn |-> "split_line_for_limit", pieces |-> r.pieces, notes |-> r.notes])
    /\ UNCHANGED <<chunkVars, pipeVars, termVars, diskVars, fn_args>>

CallSplitByWords ==
    /\ fn_args # None /\ fn_result = None
    /\ fn_result' =
          LET r == _split_by_words_with_char_fallback(fn_args[1].line, fn_args[1].limit)
          IN  Some([fn |-> "_split_by_words_with_char_fallback",
                    pieces |-> r.pieces, notes |-> r.notes])
    /\ UNCHANGED <<chunkVars, pipeVars, termVars, diskVars, fn_args>>

SplitNext == CallSplitLineForLimit \/ CallSplitByWords

SpecSplit == SplitInit /\ [][SplitNext]_vars

MaxDiffTerms == 2
MaxDiffClusters == 2

\* the dicts of at most n clusters over the terms T, in every insertion order
DictsOver(T, n) ==
    UNION {{[p \in 1..k |-> [key |-> ks[p], vs |-> v[p]]] :
               ks \in {f \in [1..k -> T] : \A p, q \in 1..k : p # q => f[p] # f[q]},
               v \in [1..k -> SUBSET T]} : k \in 0..n}

\* diff_term_maps(cur, prev) is about to be called, for any two dicts
DiffInit ==
    /\ NothingRuns
    /\ NoTerms
    /\ fn_result = None
    /\ \E cur \in DictsOver(1..MaxDiffTerms, MaxDiffClusters) :
          \E prev \in DictsOver(1..MaxDiffTerms, MaxDiffClusters) :
              fn_args = Some([cur |-> cur, prev |-> prev])

\* diff = diff_term_maps(cur, prev); merge_term_maps(prev, diff);
\* again = diff_term_maps(cur, prev)
CallDiffTermMaps ==
    /\ fn_args # None /\ fn_result = None
    /\ fn_result' =
          LET diff == diff_term_maps(fn_args[1].cur, fn_args[1].prev)
              known == merge_term_maps(fn_args[1].prev, diff)
          IN  Some([diff |-> diff, known |-> known,
                    again |-> diff_term_maps(fn_args[1].cur, known)])
    /\ UNCHANGED <<chunkVars, pipeVars, termVars, diskVars, fn_args>>

SpecDiff == DiffInit /\ [][CallDiffTermMaps]_vars

\* ----------------------------------- main, the glossary of the fragment loop
MaxTermFragments == 2

\* what extract_merged_terms_map can return for a rewritten text: clusters in
\* the order of their first mention, each with at least one variant
ExtractedMaps ==
    UNION {{[p \in 1..n |-> [key |-> ks[p], vs |-> v[p]]] :
               ks \in KeyOrders(n), v \in [1..n -> (SUBSET Terms) \ {{}}]} : n \in 0..MaxTerms}

\* the fragment loop is about to start, with an empty glossary
TermsInit ==
    /\ NothingRuns
    /\ NoCall
    /\ known_terms = <<>>
    /\ known_before = <<>>
    /\ keep_map = <<>>
    /\ term_m = <<>>
    /\ term_idx = 0
    /\ tpc = "idle"

\* a fragment whose rewritten text is empty ("if cleaned:") or names no merged
\* terms ("if current_map:")
TermsNoUpdate ==
    /\ tpc = "idle"
    /\ term_idx < MaxTermFragments
    /\ term_idx' = term_idx + 1
    /\ keep_map' = <<>>
    /\ known_before' = known_terms
    /\ UNCHANGED <<chunkVars, pipeVars, callVars, diskVars, known_terms, term_m, tpc>>

\* a fragment whose rewritten text names merged terms: the annotation is
\* rewritten to the new variants under their canonical keys, current_map is
\* merged into known_terms and coalesce_term_map(known_terms) is entered
TermsUpdate ==
    /\ tpc = "idle"
    /\ term_idx < MaxTermFragments
    /\ \E current_map \in ExtractedMaps \ {<<>>} :
          LET only_new == diff_term_maps(current_map, known_terms)
              merged == merge_term_maps(merge_term_maps(<<>>, known_terms), current_map)
          IN  /\ \E combined \in coalesce_term_map(merged) :
                    keep_map' = remap_keys_to_canonical(only_new, build_alias_index(combined))
              /\ known_terms' = merge_term_maps(known_terms, current_map)
              /\ term_m' = merge_term_maps(known_terms, current_map)
    /\ known_before' = known_terms
    /\ tpc' = "coalesce"
    /\ UNCHANGED <<chunkVars, pipeVars, callVars, diskVars, term_idx>>

\* a run of the while loop of coalesce_term_map that merges two clusters
TermsCoalesceMerge ==
    /\ tpc = "coalesce"
    /\ \E n \in ScanFrom(term_m, 1) : term_m' = n
    /\ UNCHANGED <<chunkVars, pipeVars, callVars, diskVars, known_terms, known_before, keep_map, term_idx, tpc>>

\* the call returns after any run of the while loop
TermsReturnEarly ==
    /\ tpc = "coalesce"
    /\ known_terms' = term_m
    /\ term_m' = <<>>
    /\ term_idx' = term_idx + 1
    /\ tpc' = "idle"
    /\ UNCHANGED <<chunkVars, pipeVars, callVars, diskVars, known_before, keep_map>>

\* a run of the while loop that changes nothing: "known_terms = coalesce_term_map(known_terms)"
TermsCoalesceReturn ==
    /\ tpc = "coalesce"
    /\ ScanFrom(term_m, 1) = {}
    /\ known_terms' = term_m
    /\ term_m' = <<>>
    /\ term_idx' = term_idx + 1
    /\ tpc' = "idle"
    /\ UNCHANGED <<chunkVars, pipeVars, callVars, diskVars, known_before, keep_map>>

TermsNext == TermsNoUpdate \/ TermsUpdate \/ TermsCoalesceMerge \/ TermsCoalesceReturn

SpecTerms == TermsInit /\ [][TermsNext]_vars

\* ===================================================================
\* Properties of chunk_text_line_preserving (SpecChunk)
\* ===================================================================
\* the newly-introduced units of a chunk: units[_overlap_units:]
NewUnits(ch) == SubSeq(ch.units, ch.overlap_units + 1, Len(ch.units))

\* the newly-introduced units of all chunks, in chunk order
AllNewUnits == Concat([k \in 1..Len(chunks) |-> NewUnits(chunks[k])])

\* the new units that come from original line n (0-based), in order
UnitsOfLine(n) == SelectSeq(AllNewUnits, LAMBDA u : u.orig = n)

\* their texts concatenated without separators
PiecesJoined(n) == Concat(Texts(UnitsOfLine(n)))

NonSpace(s) == SelectSeq(s, LAMBDA c : ~IsSpace(c))

LineIndices == 0..(Len(lines) - 1)

\* every line index appears among the new units, in non-decreasing order
LinesCoveredInOrder ==
    /\ \A n \in LineIndices : UnitsOfLine(n) # <<>>
    /\ \A k \in 1..Len(AllNewUnits) : AllNewUnits[k].orig \in LineIndices
    /\ \A k \in 1..(Len(AllNewUnits) - 1) :
          AllNewUnits[k].orig <= AllNewUnits[k + 1].orig

\* a line that was not split is exactly one unit whose text is the line
UnsplitLinesWhole ==
    \A n \in LineIndices :
        (\E k \in 1..Len(UnitsOfLine(n)) : ~UnitsOfLine(n)[k].split)
            => UnitsOfLine(n) = <<[text |-> lines[n + 1], orig |-> n, split |-> FALSE]>>

\* the line has no whitespace that follows sentence-ending punctuation
NoSentenceBoundary(line) == Len(SENTENCE_SPLIT_RE_split(line)) = 1

\* C1: for every list of lines, chunk_chars >= 1 and overlap_chars >= 0, the
\* text of each chunk returned by chunk_text_line_preserving (all its units,
\* overlap units included, joined by single newlines) is at most chunk_chars
\* characters long.
C1_ChunkTextWithinLimit ==
    \A k \in 1..Len(chunks) : Len(chunks[k].text) <= chunk_chars

\* C2, as stated: the new units of all chunks give back the original lines in
\* order, each exactly once: every line index appears, indices do not
\* decrease, an unsplit line is one unit equal to the line, and the pieces of
\* a split line concatenated without separators equal the line.
C2_Original ==
    cpc = "done" =>
        /\ LinesCoveredInOrder
        /\ UnsplitLinesWhole
        /\ \A n \in LineIndices : PiecesJoined(n) = lines[n + 1]

\* C2, amended: when the input has a line that is not blank, the new units of
\* all chunks give back the original lines in order, each exactly once: every
\* line index appears, indices do not decrease, an unsplit line is one unit
\* equal to the line, and the pieces of a split line concatenated without
\* separators equal the line up to the whitespace that follows sentence-ending
\* punctuation (they equal the line exactly when it has no such whitespace).
C2_LinesReconstructed ==
    (cpc = "done" /\ \E k \in 1..Len(lines) : ~IsBlank(lines[k])) =>
        /\ LinesCoveredInOrder
        /\ UnsplitLinesWhole
        /\ \A n \in LineIndices :
              /\ NonSpace(PiecesJoined(n)) = NonSpace(lines[n + 1])
              /\ Len(PiecesJoined(n)) <= Len(lines[n + 1])
              /\ NoSentenceBoundary(lines[n + 1]) => PiecesJoined(n) = lines[n + 1]

\* a finished run over two lines: one was split at a sentence boundary and
\* lost the whitespace there, the other is a unit of its own
C2_Witness ==
    /\ cpc = "done"
    /\ Len(lines) = 2
    /\ \E n \in LineIndices :
          /\ Len(UnitsOfLine(n)) > 1
          /\ PiecesJoined(n) # lines[n + 1]
          /\ NonSpace(PiecesJoined(n)) = NonSpace(lines[n + 1])
    /\ \E n \in LineIndices :
          /\ lines[n + 1] # <<>>
          /\ UnitsOfLine(n) = <<[text |-> lines[n + 1], orig |-> n, split |-> FALSE]>>

\* ===================================================================
\* Properties of the fragment loop of main (SpecPipe)
\* ===================================================================
\* the fragments the loop has gone through and not skipped
ProcessedSoFar == {k \in 1..(idx - 1) : Selected(k)}

BlockParts == [k \in 1..Len(cleaned_blocks) |-> cleaned_blocks[k].part]

RowIds == [k \in 1..Len(qc_rows) |-> qc_rows[k].chunk_id]

Range(seq) == {seq[k] : k \in 1..Len(seq)}

Increasing(seq) == \A k \in 1..(Len(seq) - 1) : seq[k] < seq[k + 1]

\* the attempt under way or just ended was stopped by an exception of one of
\* the classes
EndedWith(classes) == exc # None /\ exc[1].cls \in classes

Failed == StatusOf(cleaned) = "FAILED"

\* C3: fragments are processed strictly in chunk order with at most one
\* rewrite call outstanding; whatever the successes, retries and failures,
\* the output holds exactly one block and one QC row per processed fragment,
\* in increasing fragment index; the block of fragment i is appended only
\* when all attempts for fragment i have ended and before any attempt for
\* fragment i+1.
C3_Sequential ==
    /\ [](/\ Cardinality(in_flight) <= 1
          /\ in_flight # {} => ppc \in {"calling", "summary_calling"}
          /\ ppc = "calling" => in_flight = {idx}
          /\ Increasing(BlockParts)
          /\ Range(BlockParts) = ProcessedSoFar
          /\ RowIds = BlockParts)
    /\ [][/\ cleaned_blocks' # cleaned_blocks =>
                /\ ppc = "finish" /\ in_flight = {} /\ in_flight' = {}
                /\ Len(cleaned_blocks') = Len(cleaned_blocks) + 1
                /\ SubSeq(cleaned_blocks', 1, Len(cleaned_blocks)) = cleaned_blocks
                /\ cleaned_blocks'[Len(cleaned_blocks')].part = idx
                /\ idx' = idx + 1
          /\ (in_flight' # in_flight /\ in_flight' # {}) =>
                /\ in_flight = {}
                /\ in_flight' \in {{idx}, {0}}
                /\ idx' = idx
          /\ idx' \in {idx, idx + 1}]_vars

\* the third fragment has ended its attempts after a retry, the first two have
\* their blocks, one of them failed and one succeeded
C3_Witness ==
    /\ ppc = "finish"
    /\ idx = 3
    /\ BlockParts = <<1, 2>>
    /\ RowIds = <<1, 2>>
    /\ ok_count = 1
    /\ fail_count = 1
    /\ n_calls >= 2

\* C4: when a rewrite attempt for a fragment fails with an Auth or Unknown
\* error no further attempt is made for that fragment, whatever the number of
\* attempts left, and the fragment ends Failed.
C4_AuthUnknownNotRetried ==
    /\ [](/\ ppc = "retry_wait" => ~EndedWith({"Auth", "Unknown"})
          /\ (ppc = "finish" /\ EndedWith({"Auth", "Unknown"})) =>
                Failed /\ n_calls = attempt_i)
    /\ [][/\ (ppc = "calling" /\ ppc' # "calling" /\ exc' # None
                /\ exc'[1].cls \in {"Auth", "Unknown"}) =>
                ppc' = "finish" /\ n_calls' = n_calls /\ attempt_i' = attempt_i
          /\ ppc = "finish" =>
                /\ ppc' = "loop" /\ n_calls' = n_calls
                /\ Failed => fail_count' = fail_count + 1]_vars

\* an Auth error on attempt 1 of MaxAttempts: one call, fragment Failed
C4_Witness ==
    /\ ppc = "finish"
    /\ EndedWith({"Auth"})
    /\ attempts = MaxAttempts
    /\ attempt_i = 1
    /\ n_calls = 1
    /\ Failed

\* C5: for each fragment every rewrite call made is within the configured
\* attempt count; RateLimit and Connection failures are retried while
\* attempts remain; when the cap is reached with such an error the fragment
\* ends Failed and main goes on to the next fragment: the run ends only when
\* the loop has gone through every fragment.
C5_AttemptCap ==
    /\ [](/\ n_calls > 0 => n_calls <= attempts
          /\ (ppc = "finish" /\ EndedWith({"RateLimit", "Connection"})) =>
                Failed /\ attempt_i >= attempts /\ n_calls = attempts
          /\ (ppc = "retry_wait") => attempt_i < attempts
          /\ (ppc = "exited" /\ exit_code = Some(0)) => idx = total_chunks + 1)
    /\ [][/\ (ppc = "calling" /\ ppc' # "calling" /\ exc' # None
                /\ exc'[1].cls \in {"RateLimit", "Connection"}
                /\ attempt_i < attempts) =>
                ppc' = "retry_wait"
          /\ ppc = "retry_wait" =>
                ppc' = "attempt" /\ attempt_i' = attempt_i + 1 /\ idx' = idx
          /\ ppc = "finish" =>
                ppc' = "loop" /\ idx' = idx + 1 /\ exit_code' = None]_vars

\* the cap of MaxAttempts calls is reached with a RateLimit error on a
\* fragment that is not the last one
C5_Witness ==
    /\ ppc = "finish"
    /\ EndedWith({"RateLimit"})
    /\ attempts = MaxAttempts
    /\ n_calls = MaxAttempts
    /\ idx < total_chunks
    /\ Failed

\* C6: for every processed fragment the attempt loop makes at least one
\* rewrite attempt and ends in exactly one of Success (the last attempt
\* returned text that is not blank) or Failed.
C6_AtLeastOneAttempt ==
    ppc = "finish" =>
        /\ n_calls >= 1
        /\ ~Failed <=> exc = None

\* C7: before a retry the wait is max(suggested, 0) + the fixed pause when the
\* text of a RateLimit error carries a suggested wait (17 and a pause of 2 give
\* 19), and the fixed pause otherwise (another error class, an empty response,
\* no suggestion that parses).
C7_WaitBeforeRetry ==
    ppc \in {"retry_wait", "summary_wait"} =>
        /\ exc # None
        /\ LET e == exc[1]
               suggested == IF e.cls = "RateLimit"
                            THEN _extract_retry_after_seconds(e.msg)
                            ELSE None
           IN  /\ suggested # None =>
                     wait_for = Max(suggested[1], 0) + pause_between_attempts
               /\ suggested = None => wait_for = pause_between_attempts
               /\ (e.cls = "RateLimit" /\ e.msg = MsgRetryIn
                     /\ pause_between_attempts = 2) => wait_for = 19
               /\ (e.cls = "RateLimit" /\ e.msg = MsgRetryDelay) =>
                     wait_for = 5 + pause_between_attempts
               /\ (e.cls # "RateLimit" \/ e.msg \in {<<>>, MsgPlain, MsgRetryInWords}) =>
                     wait_for = pause_between_attempts

\* a RateLimit error that says "retry in 17s", with a pause of 2: a wait of 19
C7_Witness ==
    /\ ppc = "retry_wait"
    /\ exc = Some([cls |-> "RateLimit", msg |-> MsgRetryIn])
    /\ pause_between_attempts = 2
    /\ wait_for = 19

\* C8: a rewrite call that returns empty or whitespace-only text is never
\* counted as a success: it is retried while attempts remain, and on the last
\* attempt the fragment ends Failed.
C8_BlankNeverSuccess ==
    /\ [](/\ exc = Some(EmptyResponseError) =>
                \/ ppc = "retry_wait" /\ attempt_i < attempts
                \/ ppc = "finish" /\ attempt_i >= attempts /\ Failed
          /\ (ppc = "finish" /\ ~Failed) => ~IsBlank(cleaned) /\ exc = None
          /\ (ppc = "finish" /\ exc = None /\ n_calls > 0) => ~IsBlank(cleaned))
    /\ [][/\ ok_count' # ok_count =>
                ok_count' = ok_count + 1 /\ ppc = "finish" /\ ~IsBlank(cleaned)
          /\ (ppc = "finish" /\ IsBlank(cleaned)) => fail_count' = fail_count + 1]_vars

\* a whitespace-only response was retried and the last attempt was blank again
C8_Witness ==
    /\ ppc = "finish"
    /\ exc = Some(EmptyResponseError)
    /\ attempts >= 2
    /\ n_calls = attempts
    /\ Failed

\* C9: at every point of the run ok_count + fail_count is the number of
\* fragments processed so far, and every fragment whose rewrite ended without
\* usable text (any error class, the cap reached, an empty response, no
\* attempt at all) is counted in fail_count, which the closing log reports.
C9_Tally ==
    /\ [](/\ ok_count + fail_count = Cardinality(ProcessedSoFar)
          /\ ok_count + fail_count = Len(cleaned_blocks)
          /\ ok_count >= 0 /\ fail_count >= 0)
    /\ [][/\ ppc = "finish" =>
                IF Failed \/ exc # None
                THEN fail_count' = fail_count + 1 /\ ok_count' = ok_count
                ELSE ok_count' = ok_count + 1 /\ fail_count' = fail_count
          /\ ppc # "finish" => (ok_count' = ok_count /\ fail_count' = fail_count)]_vars

\* main has returned after three fragments: one succeeded, two failed
C9_Witness ==
    /\ ppc = "exited"
    /\ ok_count = 1
    /\ fail_count = 2
    /\ Len(cleaned_blocks) = 3

\* C10: when the run completes with at least one Failed fragment the exit
\* status of the process is neither zero nor the status of a total failure;
\* it is zero only when every fragment succeeded.
C10_ExitStatus ==
    (ppc = "exited" /\ fail_count > 0) => exit_code \notin {Some(0), Some(1)}

\* C11: a chunk_chars that is not positive is rejected before chunking starts:
\* chunk_text_line_preserving is never entered with chunk_chars <= 0, and the
\* run is over before any fragment is processed.
C11_ChunkCharsRejected ==
    chunk_chars <= 0 =>
        /\ ppc \in {"start", "exited"}
        /\ ppc = "exited" => (exit_code # None /\ exit_code # Some(0) /\ n_calls = 0)

\* C12: every chunk emitted by chunk_text_line_preserving holds at least one
\* newly-introduced unit (_overlap_units < number of units): a chunk made of
\* overlap units only is never emitted.
C12_ChunkHasNewUnit ==
    \A k \in 1..Len(chunks) :
        /\ chunks[k].overlap_units >= 0
        /\ chunks[k].overlap_units < Len(chunks[k].units)
        /\ NewUnits(chunks[k]) # <<>>

\* a finished run with a chunk that starts with overlap units and a later
\* chunk that was built without overlap although overlap was asked for
C12_Witness ==
    /\ cpc = "done"
    /\ overlap_chars > 0
    /\ \E k \in 1..Len(chunks) : chunks[k].overlap_units >= 1
    /\ \E k \in 2..Len(chunks) : chunks[k].overlap_units = 0

\* the place of the chunker in its input: the line cursor, then the cursor
\* into the pieces of the line being continued
PendingCursor(pd) == IF pd = NoPending THEN 0 ELSE pd[1].cursor

Advances(i0, pd0, i1, pd1) ==
    \/ i1 > i0
    \/ i1 = i0 /\ PendingCursor(pd1) > PendingCursor(pd0)

\* the pass whose attempts ended in `a` emits a chunk and moves forward
PassAdvances(a) ==
    /\ a.added_new > 0
    /\ Advances(i, pending, a.i, a.pending)

\* C13: chunk_text_line_preserving terminates for every list of lines with
\* chunk_chars >= 1 and any overlap_chars, overlap_chars >= chunk_chars
\* included: whenever the outer loop does not take its termination break, the
\* pass that follows finalizes a chunk and strictly advances the line cursor
\* or the pending-piece cursor, both of which are bounded by the input, so the
\* "no new content" branch never leaves the loop running without progress.
C13_ChunkerTerminates ==
    /\ []((cpc = "loop" /\ ~(i >= Len(lines) /\ pending = NoPending)) =>
             PassAdvances(ChunkPassResult(lines, chunk_chars, overlap_chars,
                                          prev_units, i, pending, warned)))
    /\ [](/\ i <= Len(lines)
          /\ pending # NoPending =>
                /\ i < Len(lines)
                /\ pending[1].cursor < Len(pending[1].pieces))
    /\ [][(cpc = "loop" /\ cpc' = "loop") =>
              /\ Advances(i, pending, i', pending')
              /\ Len(chunks') = Len(chunks) + 1]_vars

\* the chunker has returned two chunks or more for an overlap_chars that is
\* not below chunk_chars, and a line went through the pending pieces
C13_Witness ==
    /\ cpc = "done"
    /\ overlap_chars >= chunk_chars
    /\ Len(chunks) >= 2
    /\ \E k \in 1..Len(chunks) :
          \E j \in 1..Len(chunks[k].units) : chunks[k].units[j].split

\* C25: the inter-request delay is slept exactly once per fragment, before its
\* first attempt, for every processed fragment except the very first processed
\* one, and never before a retry: time.sleep(request_delay) is entered only
\* before the first call of a fragment that is not the first one processed,
\* and with a positive delay the first call of every later processed fragment
\* comes out of that sleep.
C25_DelayOncePerFragment ==
    [][ /\ (ppc # "delay" /\ ppc' = "delay") =>
              attempt_i = 1 /\ n_calls = 0 /\ ProcessedSoFar # {}
        /\ (ppc = "attempt" /\ ppc' = "calling" /\ attempt_i = 1 /\ request_delay > 0) =>
              ProcessedSoFar = {} ]_vars

\* ------------------------------------------------- claims, SpecOverlap
\* what build_context_overlap joins before the closing trim
UntrimmedContext(a) ==
    Strip(Join(ContextLines(
        splitlines(ContextSourceText(a.prev_raw_text, a.prev_cleaned_text, a.source)),
        a.max_chars, a.sentence_delimiters, <<>>, 0), <<NL>>))

\* C17: build_context_overlap returns at most max_chars characters whatever the
\* previous text, the source and the delimiters are, and returns the empty
\* string when the source is 'none' or max_chars is not positive.
C17_ContextWithinMaxChars ==
    fn_result # None =>
        /\ fn_args[1].max_chars > 0 => Len(fn_result[1]) <= fn_args[1].max_chars
        /\ (fn_args[1].source = "none" \/ fn_args[1].max_chars <= 0) => fn_result[1] = <<>>

\* a call in which the joined tail is longer than max_chars and is cut
C17_Witness ==
    /\ fn_result # None
    /\ fn_args[1].max_chars > 0
    /\ fn_args[1].source = "cleaned"
    /\ fn_args[1].prev_cleaned_text # <<>>
    /\ Len(UntrimmedContext(fn_args[1])) > fn_args[1].max_chars
    /\ Len(fn_result[1]) = fn_args[1].max_chars

\* --------------------------------------------------- claims, SpecDedup
\* the numbers k > 0 for which the last k normalized lines of the previous
\* window equal the first k normalized lines of the current window
MatchingRuns(a) ==
    LET prev_norm == NormalizedLines(_window_lines_from_end(a.prev_text, a.window_chars))
        cur_norm == NormalizedLines(_window_lines_from_start(a.cur_text, a.window_chars))
    IN  {k \in 1..Min(Len(prev_norm), Len(cur_norm)) :
            SubSeq(prev_norm, Len(prev_norm) - k + 1, Len(prev_norm)) = SubSeq(cur_norm, 1, k)}

Largest(S) == CHOOSE k \in S : \A j \in S : j <= k

\* the call passes the opening test of dedup_overlapping_boundary
DedupApplies(a) == a.prev_text # <<>> /\ a.cur_text # <<>> /\ a.window_chars > 0

\* the lines of the text from line k + 1 on, joined by newlines
LinesAfter(text, k) ==
    Join(SubSeq(splitlines(text), k + 1, Len(splitlines(text))), <<NL>>)

C19_UnchangedWithoutMatch ==
    fn_result # None =>
        /\ (~DedupApplies(fn_args[1]) \/ MatchingRuns(fn_args[1]) = {}) =>
              fn_result[1] = [text |-> fn_args[1].cur_text, removed |-> 0, mode |-> "none"]
        /\ fn_result[1].removed = 0 => fn_result[1].text = fn_args[1].cur_text
        /\ fn_result[1].removed > 0 =>
              LET k == fn_result[1].removed
                  cur_lines == splitlines(fn_args[1].cur_text)
                  prev_lines == splitlines(fn_args[1].prev_text)
              IN  /\ k <= Len(cur_lines) /\ k <= Len(prev_lines)
                  /\ fn_result[1].text = LinesAfter(fn_args[1].cur_text, k)
                  /\ \A j \in 1..k :
                        _normalize_for_match(cur_lines[j]) =
                            _normalize_for_match(prev_lines[Len(prev_lines) - k + j])

\* a window of zero with texts whose boundary lines match, and a positive
\* window with no match
C19_Witness ==
    /\ fn_result # None
    /\ fn_args[1].prev_text # <<>>
    /\ fn_args[1].cur_text # <<>>
    /\ fn_result[1].removed = 0
    /\ \/ fn_args[1].window_chars <= 0 /\ MatchingRuns(fn_args[1]) # {}
       \/ fn_args[1].window_chars > 0 /\ Len(splitlines(fn_args[1].cur_text)) >= 2

\* ------------------------------------------------ claims, SpecCoalesce
\* C20: coalesce_term_map applied to its own result returns that result.
C20_CoalesceIdempotent ==
    (fn_result # None /\ fn_result[1].call = 3) =>
        AsDict(fn_result[1].second[1]) = AsDict(fn_result[1].first[1])

\* a map that takes two merges, coalesced twice
C20_Witness ==
    /\ fn_result # None
    /\ fn_result[1].call = 3
    /\ Len(fn_result[1].first[1]) = Len(fn_args[1].term_map) - 2
    /\ fn_result[1].second # None

\* the dicts that hold the entries of m, inserted in another order
Reorderings(m) == {[p \in 1..Len(m) |-> m[f[p]]] : f \in Permutations(1..Len(m))}

\* C21: two maps that hold the same clusters in different insertion order
\* coalesce to the same map: whatever coalesce_term_map returned for term_map,
\* it returns the same keys with the same variant sets for every reordering.
C21_OrderIndependent ==
    (fn_result # None /\ fn_result[1].call >= 2) =>
        \A m2 \in Reorderings(fn_args[1].term_map) :
            \A r \in coalesce_term_map(m2) :
                AsDict(r) = AsDict(fn_result[1].first[1])

\* ------------------------------------------------- claims, SpecContext
\* the chunks whose fragment has been handed to the rewrite call
SubmittedChunks == {s.chunk : s \in submitted}

\* the chunks whose newly-introduced units hold a unit of original line n
ChunksWithLine(n) ==
    {k \in 1..Len(chunks) :
        \E j \in 1..Len(NewUnits(chunks[k])) : NewUnits(chunks[k])[j].orig = n}

\* C14: what is handed to the rewrite call for a chunk is the text of its
\* newly-introduced units joined by newlines, without the overlap units; and
\* when a run without chunk selection has ended, every input line that was
\* not split has been handed over in exactly one fragment.
C14_FragmentSubmitted ==
    /\ \A s \in submitted :
          s.chunk_text = Join(Texts(NewUnits(chunks[s.chunk])), <<NL>>)
    /\ (ppc = "exited" /\ selected_chunks = None) =>
          \A n \in LineIndices :
              (\A k \in 1..Len(UnitsOfLine(n)) : ~UnitsOfLine(n)[k].split) =>
                  Cardinality(ChunksWithLine(n) \cap SubmittedChunks) = 1

\* the context of fragment idx has been built
ContextBuilt == idx > 1 /\ ppc \in {"attempt", "delay", "calling", "retry_wait", "finish"}

\* the rewritten text of fragment k as it went into the output, empty for a
\* fragment that was skipped
RewrittenOf(k) ==
    IF \E p \in 1..Len(cleaned_blocks) : cleaned_blocks[p].part = k
    THEN cleaned_blocks[CHOOSE p \in 1..Len(cleaned_blocks) : cleaned_blocks[p].part = k].text
    ELSE <<>>

\* C15: the context of fragment idx > 1 is the tail of fragment idx - 1: of its
\* raw text when the source is raw, of its rewritten text when the source is
\* cleaned (of its raw text when that rewritten text is blank), also when
\* fragment idx - 1 ended Failed; no older fragment is used.
C15_ContextFromPrevious ==
    ContextBuilt =>
        context_text = build_context_overlap(FragmentText(chunks[idx - 1]),
                                             RewrittenOf(idx - 1), overlap_source,
                                             overlap_chars, sentence_delimiters)

\* C16: when the source is cleaned and the previous rewritten text is blank
\* once its comments are stripped, the context is the tail of the raw previous
\* fragment and a warning has been logged for the fragment.
C16_EmptyCleanedFallsBack ==
    (/\ ContextBuilt
     /\ overlap_source = "cleaned"
     /\ IsBlank(strip_all_html_comments(last_cleaned_fragment))) =>
        /\ used_source = Some("raw")
        /\ context_text = build_context_overlap(prev_raw_fragment, <<>>, "raw",
                                                overlap_chars, sentence_delimiters)
        /\ \E w \in warnings : w.chunk = idx

\* --------------------------------------------------- claims, SpecTerms
\* no string is both a canonical key and a variant of a different cluster
Coalesced(m) ==
    \A p, q \in 1..Len(m) : p # q => m[p].key \notin m[q].vs

\* C22: after every update of known_terms in the fragment loop, and after every
\* call of coalesce_term_map, no string is both a canonical key and a member of
\* a different cluster's variant set; the call terminates, since every run of
\* its while loop that goes on has removed a cluster.
C22_KnownTermsCoalesced ==
    [][ /\ (tpc = "coalesce" /\ tpc' = "coalesce") => Len(term_m') < Len(term_m)
        /\ tpc' = "idle" => Coalesced(known_terms') ]_vars

\* the second fragment's terms made two merges necessary, and the call is
\* about to return
C22_Witness ==
    /\ tpc = "coalesce"
    /\ term_idx = 1
    /\ Len(term_m) + 2 = Len(known_terms)
    /\ ScanFrom(term_m, 1) = {}

\* the strings of a cluster: its canonical key and its variants
ClusterOf(e) == {e.key} \cup e.vs

\* every cluster of the older map lies within one cluster of the newer map
Grows(older, newer) ==
    \A p \in 1..Len(older) : \E q \in 1..Len(newer) :
        ClusterOf(older[p]) \subseteq ClusterOf(newer[q])

\* C23: the known-terms map only grows: after a fragment has been handled,
\* every canonical key and every variant the map held before is still in it,
\* and every variant is in one cluster with its former canonical key.
C23_KnownTermsGrow ==
    tpc = "idle" => Grows(known_before, known_terms)

\* a fragment has made a canonical key of the map a variant of another key
C23_Witness ==
    /\ tpc = "idle"
    /\ known_before # <<>>
    /\ \E p \in 1..Len(known_before) :
          /\ KeyIndex(known_terms, known_before[p].key) = 0
          /\ \E q \in 1..Len(known_terms) : known_before[p].key \in known_terms[q].vs

\* ------------------------------------------------------ claims, SpecDiff
\* C24: after merge_term_maps(known, diff_term_maps(current, known)) a second
\* diff_term_maps(current, known) is the empty map.
C24_DiffMonotonic ==
    fn_result # None => fn_result[1].again = <<>>

\* the known map holds one of the two keys of current, with a part of its
\* variants, and the first diff names both keys
C24_Witness ==
    /\ fn_result # None
    /\ Len(fn_args[1].prev) = 1
    /\ Len(fn_result[1].diff) = 2
    /\ fn_args[1].prev[1].vs \cap GetOrEmpty(fn_args[1].cur, fn_args[1].prev[1].key) # {}

\* ----------------------------------------------------- claims, SpecSplit
\* split_line_for_limit has returned
SplitReturned == fn_result # None /\ fn_result[1].fn = "split_line_for_limit"

\* C26: for every line and every limit >= 1 each piece returned by
\* split_line_for_limit is at most limit characters long, and a line of at most
\* limit characters is returned as the single piece [line] with no notes.
C26_PiecesWithinLimit ==
    SplitReturned =>
        /\ \A k \in 1..Len(fn_result[1].pieces) :
              Len(fn_result[1].pieces[k]) <= fn_args[1].limit
        /\ Len(fn_args[1].line) <= fn_args[1].limit =>
              fn_result[1].pieces = <<fn_args[1].line>> /\ fn_result[1].notes = <<>>

\* a line of two sentences, the second of them longer than the limit and made
\* of a long token, split down to the characters
C26_Witness ==
    /\ SplitReturned
    /\ Len(SENTENCE_SPLIT_RE_split(fn_args[1].line)) = 2
    /\ "hard_split" \in Range(fn_result[1].notes)
    /\ Len(fn_result[1].pieces) >= 3

\* the text without the whitespace that follows sentence-ending punctuation
WithoutJoinSpaces(text) == Concat(SENTENCE_SPLIT_RE_split(text))

\* C27: the pieces of split_line_for_limit taken in order hold the line's
\* non-whitespace characters exactly once and in the original order; only
\* whitespace at sentence join points may differ, and when no sentence boundary
\* is used the plain concatenation of the pieces equals the line.
C27_ContentPreserved ==
    SplitReturned =>
        LET line == fn_args[1].line
            joined == Concat(fn_result[1].pieces)
        IN  /\ NonSpace(joined) = NonSpace(line)
            /\ WithoutJoinSpaces(joined) = WithoutJoinSpaces(line)
            /\ (Len(line) <= fn_args[1].limit \/ NoSentenceBoundary(line)) => joined = line

\* two pieces, the first with a space inside it, that are together at least
\* two characters shorter than the line
C27_Witness ==
    /\ SplitReturned
    /\ Len(fn_result[1].pieces) = 2
    /\ Len(Concat(fn_result[1].pieces)) < Len(fn_args[1].line) - 1
    /\ \E k \in 2..(Len(fn_result[1].pieces[1]) - 1) : fn_result[1].pieces[1][k] = " "

\* the least number of pieces of at most d characters for n characters
Ceil(n, d) == (n + d - 1) \div d

\* tok[0:limit], tok[limit:2*limit], ...
PiecesByOffset(tok, limit) ==
    [j \in 1..Ceil(Len(tok), limit) |->
        SubSeq(tok, (j - 1) * limit + 1, Min(j * limit, Len(tok)))]

\* the pieces hold `run` as consecutive pieces
HoldsRun(pieces, run) ==
    \E j \in 0..(Len(pieces) - Len(run)) : SubSeq(pieces, j + 1, j + Len(run)) = run

LongWords(line, limit) ==
    {k \in 1..Len(Tokens(line)) :
        ~IsSpace(Tokens(line)[k][1]) /\ Len(Tokens(line)[k]) > limit}

\* C28: a whitespace-free token longer than limit is hard-split by character
\* offsets into exactly ceil(len/limit) pieces, each of length limit except
\* possibly the last, whose concatenation is the token, and a diagnostic note
\* is returned; a long line of letters whose length is ten times the limit
\* gives exactly 10 pieces of length limit.
C28_HardSplit ==
    fn_result # None =>
        LET line == fn_args[1].line
            limit == fn_args[1].limit
            pieces == fn_result[1].pieces
        IN  /\ \A k \in LongWords(line, limit) :
                  /\ HoldsRun(pieces, PiecesByOffset(Tokens(line)[k], limit))
                  /\ Concat(PiecesByOffset(Tokens(line)[k], limit)) = Tokens(line)[k]
                  /\ "hard_split" \in Range(fn_result[1].notes)
            /\ (line = Letters(Len(line)) /\ Len(line) = 10 * limit /\ limit > 1) =>
                  /\ Len(pieces) = 10
                  /\ \A j \in 1..10 : Len(pieces[j]) = limit
                  /\ Concat(pieces) = line

\* the line of 50 letters has been split with limit 5
C28_Witness ==
    /\ SplitReturned
    /\ fn_args[1].line = Letters(50)
    /\ fn_args[1].limit = 5
    /\ Len(fn_result[1].pieces) = 10
    /\ "hard_split" \in Range(fn_result[1].notes)

\* ------------------------------------------------ claims, SpecShortLines
\* the call returned exactly one chunk, which holds all the lines as its units
\* and has no overlap units
OneChunkOfAllLines ==
    /\ Len(chunks) = 1
    /\ Texts(chunks[1].units) = lines
    /\ chunks[1].overlap_units = 0

\* C29, as stated: chunk_text_line_preserving(lines, 50, 10) on three lines of
\* at most 50 characters each returns exactly one chunk that contains all three
\* lines, with _overlap_units = 0.
C29_Original ==
    cpc = "done" => OneChunkOfAllLines

\* C29, amended: chunk_text_line_preserving(lines, 50, 10) on three lines that
\* are not all blank and that, joined by newlines, have at most 50 characters,
\* returns exactly one chunk that contains all three lines, with
\* _overlap_units = 0.
C29_ShortLinesOneChunk ==
    (/\ cpc = "done"
     /\ \E k \in 1..Len(lines) : ~IsBlank(lines[k])
     /\ _joined_len(lines) <= chunk_chars) => OneChunkOfAllLines

\* three lines of 16 letters, 50 characters when joined, in one chunk
C29_Witness ==
    /\ cpc = "done"
    /\ lines = <<Letters(16), Letters(16), Letters(16)>>
    /\ OneChunkOfAllLines
    /\ Len(chunks[1].text) = 50

\* ----------------------------------------------------- claims, SpecAbort
\* what the Markdown file on disk holds
OnDisk == SubSeq(FullMarkdown(cleaned_blocks, summary), 1, md_written[1])

Count(text, c) == Cardinality({k \in 1..Len(text) : text[k] = c})

\* every block that the text starts is in it up to its end comment
CompleteBlocksOnly(text) == Count(text, StartComment) = Count(text, EndComment)

\* C30: whenever the run is aborted, the output Markdown file holds no
\* partially-written fragment: at every moment the file is either not yet
\* written or holds only complete, already-finalized fragment blocks.
C30_NoPartialFragment ==
    md_written = None \/ CompleteBlocksOnly(OnDisk)

\* ------------------------------------------------- claims, SpecManyLines
\* the leading _overlap_units units of a chunk
OverlapUnits(ch) == SubSeq(ch.units, 1, ch.overlap_units)

IsSuffix(s, t) ==
    /\ Len(s) <= Len(t)
    /\ s = SubSeq(t, Len(t) - Len(s) + 1, Len(t))

\* ov holds trailing sub-pieces of the last unit of prev, as the splitter
\* cuts that unit for the overlap limit
TrailingSubPieces(ov, prev, limit) ==
    /\ prev # <<>>
    /\ limit > 0
    /\ IsSuffix(Texts(ov), split_line_for_limit(prev[Len(prev)].text, limit).pieces)
    /\ \A k \in 1..Len(ov) : ov[k].orig = prev[Len(prev)].orig /\ ov[k].split

\* C31: for every chunk after the first, its leading _overlap_units units are
\* taken from the tail of the previous chunk (whole trailing units in order,
\* or trailing sub-pieces of its last line) and their joined length is at
\* most overlap_chars and at most chunk_chars - 1; the first chunk has
\* _overlap_units = 0.
C31_OverlapFromPreviousTail ==
    \A k \in 1..Len(chunks) :
        IF k = 1 THEN chunks[k].overlap_units = 0
        ELSE /\ \/ IsSuffix(OverlapUnits(chunks[k]), chunks[k - 1].units)
                \/ TrailingSubPieces(OverlapUnits(chunks[k]), chunks[k - 1].units,
                                     hard_overlap_limit(chunk_chars, overlap_chars))
             /\ _joined_len(Texts(OverlapUnits(chunks[k]))) <= overlap_chars
             /\ _joined_len(Texts(OverlapUnits(chunks[k]))) <= chunk_chars - 1

\* the same without the bound by overlap_chars
C31_TailAndRoom ==
    \A k \in 1..Len(chunks) :
        IF k = 1 THEN chunks[k].overlap_units = 0
        ELSE /\ \/ IsSuffix(OverlapUnits(chunks[k]), chunks[k - 1].units)
                \/ TrailingSubPieces(OverlapUnits(chunks[k]), chunks[k - 1].units,
                                     hard_overlap_limit(chunk_chars, overlap_chars))
             /\ _joined_len(Texts(OverlapUnits(chunks[k]))) <= chunk_chars - 1

\* ----------------------------------------------- claims, units of a chunk
\* the line fits in an empty chunk
FitsEmptyChunk(n) == Len(lines[n + 1]) <= chunk_chars

\* C32: in every chunk, a unit has split = false exactly when its text is a
\* whole original line, and split = true only when it is one piece of a line
\* that was broken because the line alone exceeds chunk_chars; a line that
\* fits in an empty chunk is never marked split and is never routed through
\* the pending-piece queue, also when it did not fit next to the overlap
\* units.
C32_SplitOnlyLongLines ==
    /\ \A k \in 1..Len(chunks) : \A j \in 1..Len(chunks[k].units) :
          LET u == chunks[k].units[j]
          IN  /\ ~u.split <=> u.text = lines[u.orig + 1]
              /\ u.split => ~FitsEmptyChunk(u.orig)
    /\ pending # NoPending => ~FitsEmptyChunk(pending[1].orig)

\* the chunks (by index) whose new units hold a split piece of line n
ChunksOfLine(n) ==
    {k \in 1..Len(chunks) :
        \E j \in 1..Len(NewUnits(chunks[k])) :
            NewUnits(chunks[k])[j].orig = n /\ NewUnits(chunks[k])[j].split}

IsPrefix(s, t) == Len(s) <= Len(t) /\ s = SubSeq(t, 1, Len(s))

\* line n has been handled up to its end
LineDone(n) == i > n \/ cpc = "done"

\* C33: while the pending pieces of a long line are drained, each chunk
\* receives exactly one pending piece as its only newly-introduced unit: a
\* chunk whose new content is a split piece contains no other new unit, and
\* the pieces of one line go to consecutive chunks in piece order.
C33_OnePiecePerChunk ==
    /\ \A k \in 1..Len(chunks) :
          (\E j \in 1..Len(NewUnits(chunks[k])) : NewUnits(chunks[k])[j].split)
              => Len(NewUnits(chunks[k])) = 1
    /\ \A n \in LineIndices :
          LET ks == ChunksOfLine(n)
              pieces == split_line_for_limit(lines[n + 1], chunk_chars).pieces
              placed == [k \in 1..Len(UnitsOfLine(n)) |-> UnitsOfLine(n)[k].text]
          IN  ks # {} =>
                /\ \A a, b \in ks : \A c \in a..b : c \in ks
                /\ Cardinality(ks) = Len(placed)
                /\ IsPrefix(placed, pieces)
                /\ LineDone(n) => placed = pieces
                /\ (pending # NoPending /\ pending[1].orig = n)
                      => pending[1].cursor = Len(placed)

\* a line cut into three pieces that went to three consecutive chunks, each
\* as the only new unit, before a chunk with the next line
C33_Witness ==
    /\ cpc = "done"
    /\ Len(lines) = 2
    /\ ChunksOfLine(0) = {1, 2, 3}
    /\ \A k \in 1..3 : Len(NewUnits(chunks[k])) = 1
    /\ Len(chunks) = 4
    /\ NewUnits(chunks[4])[1].orig = 1

\* ------------------------------------------ claims, the kept annotation
\* C34: the merged_terms annotation kept in a fragment's final text lists only
\* variants that were not already known under the same, alias-resolved
\* canonical before this fragment: a merge already present in known_terms is
\* not repeated, also when the fragment names the cluster by an old alias,
\* and the annotation is keyed by the current canonical spelling.
C34_AnnotationOnlyNew ==
    tpc = "idle" =>
        \A p \in 1..Len(keep_map) :
            /\ keep_map[p].vs \cap GetOrEmpty(known_before, keep_map[p].key) = {}
            /\ KeyIndex(known_terms, keep_map[p].key) # 0

\* ------------------------------------------------------ claims, SpecTail
\* the sentence-level tails of a line: its last sentences joined by a space
SentenceTails(ln, delims) ==
    LET parts == SplitAfterDelims(ln, delims, 1, <<>>, <<>>)
    IN  {Join(SubSeq(parts, j, Len(parts)), <<" ">>) : j \in 1..Len(parts)}

\* the word-level tails of a line: its last tokens, stripped
WordTails(ln) ==
    {Strip(Concat(SubSeq(Tokens(ln), j, Len(Tokens(ln))))) : j \in 1..Len(Tokens(ln))}

\* the raw character suffixes of a line, the empty one among them
CharSuffixes(ln) == {SubSeq(ln, j, Len(ln)) : j \in 1..(Len(ln) + 1)}

\* the last word of the line, <<>> when the line has none
LastWord(ln) ==
    LET words == SelectSeq(Tokens(ln), LAMBDA tok : ~IsBlank(tok))
    IN  IF words = <<>> THEN <<>> ELSE words[Len(words)]

\* the part placed before the whole lines keeps the result within max_chars
FitsBefore(part, whole, max_chars) == Len(Join(<<part>> \o whole, <<NL>>)) <= max_chars

\* the tails of ln that may stand before the whole lines: sentence tails and
\* word tails, and character suffixes of the line or of one of these tails
\* only when not even the last word fits
AllowedTails(ln, whole, max_chars, delims) ==
    SentenceTails(ln, delims) \cup WordTails(ln)
        \cup (IF LastWord(ln) # <<>> /\ FitsBefore(LastWord(ln), whole, max_chars)
              THEN {}
              ELSE UNION {CharSuffixes(t) :
                             t \in {ln} \cup SentenceTails(ln, delims) \cup WordTails(ln)})

\* out is made of the last k lines of lns, with or without a tail of the
\* line before them, stripped or not
TailOfLines(out, lns, max_chars, delims) ==
    \E k \in 0..Len(lns) :
        LET whole == SubSeq(lns, Len(lns) - k + 1, Len(lns))
        IN  \/ out = Strip(Join(whole, <<NL>>))
            \/ /\ k < Len(lns)
               /\ \E part \in AllowedTails(lns[Len(lns) - k], whole, max_chars, delims) :
                     \/ out = Strip(Join(<<part>> \o whole, <<NL>>))
                     \/ out = Join(<<part>> \o whole, <<NL>>)

\* C35: in build_context_overlap the result consists of whole trailing lines
\* in source order plus, for the first line from the end that does not fit, a
\* sentence-level tail or else a word-level tail; a raw character-suffix cut
\* (which may cut mid-word) happens only when neither a sentence nor a word
\* fits the remaining budget.
C35_TailWithoutMidWordCut ==
    (fn_result # None /\ fn_args[1].max_chars > 0 /\ fn_args[1].source # "none") =>
        TailOfLines(fn_result[1],
                    splitlines(ContextSourceText(fn_args[1].prev_raw_text,
                                                 fn_args[1].prev_cleaned_text,
                                                 fn_args[1].source)),
                    fn_args[1].max_chars, fn_args[1].sentence_delimiters)

\* --------------------------------------------------- claims, SpecGlossary
\* the fragment under way ends Failed: "status = 'OK' if cleaned and
\* cleaned.strip() else 'FAILED'" at the end of the attempt loop
EndsFailed == ppc = "finish" /\ StatusOf(cleaned) = "FAILED"

\* C36: a fragment that ends Failed leaves the glossary state (known_terms)
\* and the last rewritten text (last_cleaned_fragment) unchanged, so the term
\* hints and the 'cleaned' context given to later fragments come only from
\* fragments that succeeded; only prev_raw_fragment advances to the failed
\* fragment's raw text.
C36_FailedLeavesGlossary ==
    [][EndsFailed =>
          /\ known_terms' = known_terms
          /\ last_cleaned_fragment' = last_cleaned_fragment
          /\ prev_raw_fragment' = FragmentText(chunks[idx])]_vars

\* a fragment has failed after one that succeeded and named merged terms:
\* the glossary and the last rewritten text are those of the first one, the
\* previous raw text is that of the failed one
C36_Witness ==
    /\ ppc = "loop"
    /\ idx = 3
    /\ ok_count = 1
    /\ fail_count = 1
    /\ qc_rows[2].cleaned_len = 0
    /\ known_terms # <<>>
    /\ last_cleaned_fragment # <<>>
    /\ prev_raw_fragment = FragmentText(chunks[2])

\* the for loop is at a chunk that the selection leaves out
AtSkippedChunk == ppc = "loop" /\ idx <= total_chunks /\ ~Selected(idx)

\* the for loop is at a selected chunk that follows one the selection left
\* out, and the context is to come from the rewritten text
AfterSkippedChunk ==
    /\ ppc = "loop" /\ idx <= total_chunks /\ Selected(idx)
    /\ idx > 1 /\ ~Selected(idx - 1)
    /\ overlap_source = "cleaned"

\* chunk n has left no trace: no rewrite call, no output block, no QC row
NoTraceOf(n) ==
    /\ \A r \in submitted : r.chunk # n
    /\ \A k \in 1..Len(cleaned_blocks) : cleaned_blocks[k].part # n
    /\ \A k \in 1..Len(qc_rows) : qc_rows[k].chunk_id # n

\* C37: with a chunk selection, a chunk that is not selected causes no rewrite
\* call, no output block, no QC row and no change to known_terms,
\* last_cleaned_fragment, prev_for_dedup or the ok/fail counters; only
\* prev_raw_fragment advances, and the next selected chunk with source
\* 'cleaned' uses the raw context of the skipped chunk and emits a warning.
C37_SkippedChunkFrame ==
    /\ [](selected_chunks # None =>
             \A n \in 1..total_chunks : ~Selected(n) => NoTraceOf(n))
    /\ [][/\ AtSkippedChunk =>
               /\ UNCHANGED <<submitted, in_flight, n_calls, cleaned_blocks, qc_rows,
                              known_terms, last_cleaned_fragment, prev_for_dedup,
                              ok_count, fail_count>>
               /\ prev_raw_fragment' = FragmentText(chunks[idx])
          /\ AfterSkippedChunk =>
               /\ prev_raw_fragment = FragmentText(chunks[idx - 1])
               /\ used_source' = Some("raw")
               /\ context_text' = build_context_overlap(FragmentText(chunks[idx - 1]), <<>>,
                                                        "raw", overlap_chars,
                                                        sentence_delimiters)
               /\ [chunk |-> idx, fallback |-> 1] \in warnings']_vars

\* chunk 2 of three was left out after chunk 1 had succeeded and named merged
\* terms; chunk 3 is under way with the raw tail of chunk 2 as its context
C37_Witness ==
    /\ selected_chunks = Some({1, 3})
    /\ overlap_source = "cleaned"
    /\ ppc = "attempt"
    /\ idx = 3
    /\ ok_count = 1
    /\ known_terms # <<>>
    /\ last_cleaned_fragment # <<>>
    /\ prev_raw_fragment = FragmentText(chunks[2])
    /\ used_source = Some("raw")
    /\ context_text # <<>>
    /\ [chunk |-> 3, fallback |-> 1] \in warnings

\* ---------------------------------------------------- claims, SpecAdapter
\* the text names word w
Names(msg, w) == \E k \in 1..Len(msg) : msg[k].k = w

\* the exception under way was raised by the adapter
RaisedByAdapter(e) == e.cls # "Other"

\* C38: in the OpenAI and Gemini adapters every exception raised by the
\* provider call is re-raised as exactly one of RateLimit, Connection, Auth or
\* Unknown, tested in that order of precedence, so an error text that matches
\* both a rate-limit keyword (for example '429') and an auth/billing keyword
\* (for example 'insufficient_quota') is classified RateLimit and is therefore
\* retried by the fragment loop.
C38_RateLimitFirst ==
    [][(ppc = "calling" /\ exc' # None /\ RaisedByAdapter(exc'[1])) =>
          LET e == exc'[1]
              rate == HasKey(e.msg, RateKeys(adapter))
              conn == HasKey(e.msg, ConnKeys(adapter))
              auth == HasKey(e.msg, AuthKeys(adapter))
          IN  /\ e.cls \in {"RateLimit", "Connection", "Auth", "Unknown"}
              /\ e.cls = "RateLimit" <=> rate
              /\ e.cls = "Connection" <=> (~rate /\ conn)
              /\ e.cls = "Auth" <=> (~rate /\ ~conn /\ auth)
              /\ e.cls = "Unknown" <=> (~rate /\ ~conn /\ ~auth)
              /\ (Names(e.msg, "429") /\ Names(e.msg, "insufficient_quota")) =>
                    /\ e.cls = "RateLimit"
                    /\ attempt_i < attempts => ppc' = "retry_wait"]_vars

\* the OpenAI adapter has raised an error that names 429 and
\* insufficient_quota on the first of two attempts: it is a rate limit, and
\* the fragment loop is waiting to try again
C38_Witness ==
    /\ adapter = "openai"
    /\ ppc = "retry_wait"
    /\ attempt_i = 1
    /\ exc # None
    /\ exc[1].cls = "RateLimit"
    /\ Names(exc[1].msg, "429")
    /\ Names(exc[1].msg, "insufficient_quota")
    /\ HasKey(exc[1].msg, AuthKeys(adapter))

\* ------------------------------------------- claims, the summary request
\* C39: in the summary request loop only RateLimit and Connection errors are
\* retried, up to the attempt cap; an Auth or Unknown error, an empty summary
\* response or any other exception ends the loop at once with no summary
\* (unlike the fragment loop, which retries empty responses and unclassified
\* exceptions), and the document and the QC report are still written.
C39_SummaryLoop ==
    /\ [][/\ ppc = "summary_calling" =>
               /\ n_calls <= attempts
               /\ ppc' \in {"summary_wait", "write_md"}
               /\ ppc' = "summary_wait" =>
                     /\ exc' # None
                     /\ exc'[1].cls \in {"RateLimit", "Connection"}
                     /\ attempt_i < attempts
               /\ ppc' = "write_md" => (summary' = <<>> \/ ~IsBlank(summary'))
          /\ (ppc = "calling" /\ exc' # None /\ exc'[1].cls = "Other"
                 /\ attempt_i < attempts) => ppc' = "retry_wait"]_vars
    /\ []((ppc = "exited" /\ exit_code = Some(0)) =>
             /\ outfile_md # None
             /\ outfile_md[1].blocks = cleaned_blocks
             /\ outfile_md[1].summary = (IF IsBlank(summary) THEN None ELSE Some(summary))
             /\ qc_file = Some(qc_rows))

\* a run with more than one attempt allowed whose summary loop ended after
\* its first request with no summary, and whose document and QC report were
\* written
C39_Witness ==
    /\ ppc = "exited"
    /\ append_summary
    /\ attempts >= 2
    /\ n_calls = 1
    /\ summary = <<>>
    /\ Len(cleaned_blocks) >= 1
    /\ outfile_md = Some([blocks |-> cleaned_blocks, summary |-> None])
    /\ qc_file = Some(qc_rows)

====
